---- MODULE Spec2Model ----
(***************************************************************************)
(* A model of networking_ovn/plugin.py (class OVNPlugin): the Neutron      *)
(* model store, the OVN northbound topology store, the security-group to   *)
(* ACL compiler and the create/update/delete handlers that keep the two    *)
(* stores in step.                                                         *)
(*                                                                         *)
(* Python values are modelled as follows.  An optional value (None or a    *)
(* value) is a sequence of length at most one: None is <<>> and v is <<v>>.*)
(* A dict is a function whose DOMAIN is its key set; a list is a sequence. *)
(* Match expressions are the strings the code builds.                      *)
(***************************************************************************)
EXTENDS Integers, Sequences, FiniteSets, Bags, TLC

VARIABLES
    db,     \* the Neutron model store: networks, ports, security groups, routers
    ovn,    \* the OVN northbound store: lswitches, lports, acls, lrouters
    last,   \* the last operation: its name, subject, outcome and transactions
    nops,   \* number of operations run so far
    nfaults, \* number of operations that found the topology store unavailable
    config, \* the settings of the plugin: ovn_l3_mode
    calls   \* the update_port calls in flight, when calls run concurrently

vars == <<db, ovn, last, nops, nfaults, config, calls>>

(***************************************************************************)
(* Bounds of the model.                                                    *)
(***************************************************************************)
MaxPorts == 2

MaxOps == 3

MaxFaults == 1

(***************************************************************************)
(* Python helpers.                                                         *)
(***************************************************************************)
None == <<>>

Some(v) == <<v>>

\* Python truthiness of an optional integer / optional string.
TruthyInt(o) == o # None /\ o[1] # 0

TruthyStr(o) == o # None /\ o[1] # ""

\* '%s' % o
Str(o) == IF o = None THEN "None" ELSE o[1]

\* d.get(k) on a dict d
Get(d, k) == IF k \in DOMAIN d THEN Some(d[k]) ELSE None

\* d[k] = v on a dict d
Put(d, k, v) == [x \in DOMAIN d \cup {k} |-> IF x = k THEN v ELSE d[x]]

EmptyDict == <<>>

RECURSIVE Concat(_)
Concat(pieces) == IF pieces = <<>> THEN "" ELSE Head(pieces) \o Concat(Tail(pieces))

Range(s) == {s[i] : i \in DOMAIN s}

(***************************************************************************)
(* Identifiers.  Neutron generates a fresh uuid for every object; the      *)
(* model numbers them in creation order and never reuses one.              *)
(***************************************************************************)
NetIds == <<"n1", "n2">>

PortId(i) == "p" \o ToString(i)

PortIds == [i \in 1..MaxPorts |-> PortId(i)]

SecGroupIds == <<"sgA", "sgB">>

RouterIds == <<"r1">>

MacAddress(i) == "fa:16:3e:00:00:0" \o ToString(i)

\* networking_ovn.common.utils.ovn_name: the derived name of a logical
\* switch or router.
ovn_name(id) == "neutron-" \o id

\* networking_ovn.common.utils.ovn_lrouter_port_name: the derived name of a
\* logical router port.
ovn_lrouter_port_name(id) == "lrp-" \o id

\* networking_ovn.common.constants
ACL_PRIORITY_ALLOW == 1002

ACL_PRIORITY_DROP == 1001

ACL_ACTION_DROP == "drop"

ACL_ACTION_ALLOW == "allow"

ACL_ACTION_ALLOW_RELATED == "allow-related"

(***************************************************************************)
(* Subnets.  Every network has one IPv4 and one IPv6 subnet; a subnet id   *)
(* is <<network id, ip version>>.  Subnet operations are inherited from    *)
(* the base plugin unchanged and do not touch the topology store.          *)
(***************************************************************************)
NetIndex(n) == CHOOSE i \in DOMAIN NetIds : NetIds[i] = n

get_subnet(subnet_id) ==
    [id |-> subnet_id,
     network_id |-> subnet_id[1],
     ip_version |-> subnet_id[2],
     cidr |-> IF subnet_id[2] = 4
              THEN "10.0." \o ToString(NetIndex(subnet_id[1])) \o ".0/24"
              ELSE "fd00:" \o ToString(NetIndex(subnet_id[1])) \o "::/64"]

\* The address IPAM hands to the k-th fixed IP of port number i on a subnet.
IpAddress(subnet_id, i, k) ==
    IF subnet_id[2] = 4
    THEN "10.0." \o ToString(NetIndex(subnet_id[1])) \o "." \o ToString(10 * i + k)
    ELSE "fd00:" \o ToString(NetIndex(subnet_id[1])) \o "::" \o ToString(10 * i + k)

(***************************************************************************)
(* Reads of the model store.  d is a snapshot of the store: d.ports and    *)
(* d.security_groups are dicts keyed by id.                                *)
(***************************************************************************)
\* The (port, group) binding rows of one security group, in port order.
_get_port_security_group_bindings(d, sg_id) ==
    LET Bound(p) == /\ p \in DOMAIN d.ports
                    /\ sg_id \in Range(d.ports[p].security_groups)
        members == SelectSeq([i \in 1..(d.next_port - 1) |-> PortId(i)], Bound)
    IN [i \in DOMAIN members |-> [port_id |-> members[i], security_group_id |-> sg_id]]

get_security_group(d, sg_id) == d.security_groups[sg_id]

\* get_security_group_rules(filters={'remote_group_id': [sec_group]}): the
\* rules of every group whose remote group is sec_group.
RulesByRemoteGroup(d, sec_group) ==
    {r \in UNION {Range(d.security_groups[g].security_group_rules) : g \in DOMAIN d.security_groups} :
        r.remote_group_id = Some(sec_group)}

(***************************************************************************)
(* The match expression builder.                                           *)
(***************************************************************************)
_acl_direction(r, port) ==
    LET portdir == IF r.direction = "ingress" THEN "outport" ELSE "inport"
        remote_portdir == IF r.direction = "ingress" THEN "inport" ELSE "outport"
    IN [match |-> portdir \o " == \"" \o port.id \o "\"", remote_portdir |-> remote_portdir]

_acl_ethertype(r) ==
    IF r.ethertype = "IPv4" THEN [match |-> " && ip4", ip |-> Some("ip4"), icmp |-> Some("icmp4")]
    ELSE IF r.ethertype = "IPv6" THEN [match |-> " && ip6", ip |-> Some("ip6"), icmp |-> Some("icmp6")]
    ELSE [match |-> "", ip |-> None, icmp |-> None]

_acl_remote_ip_prefix(r, ip) ==
    IF ~TruthyStr(r.remote_ip_prefix) THEN ""
    ELSE LET src_or_dst == IF r.direction = "ingress" THEN "src" ELSE "dst"
         IN " && " \o Str(ip) \o "." \o src_or_dst \o " == " \o Str(r.remote_ip_prefix)

\* for p in sg_ports: match += '"%s",' % p['port_id']
RECURSIVE PortIdPieces(_)
PortIdPieces(sg_ports) ==
    IF sg_ports = <<>> THEN <<>>
    ELSE <<"\"" \o Head(sg_ports).port_id \o "\"", ",">> \o PortIdPieces(Tail(sg_ports))

\* if match[-1] == ',': match = match[:-1]
StripTrailingComma(pieces) ==
    IF pieces # <<>> /\ pieces[Len(pieces)] = ","
    THEN SubSeq(pieces, 1, Len(pieces) - 1)
    ELSE pieces

\* The bindings of the rule's remote group: from the per-call cache when it
\* holds them, else read from the store and cached.
RemoteGroupPorts(d, r, sg_ports_cache) ==
    IF r.remote_group_id[1] \in DOMAIN sg_ports_cache
    THEN sg_ports_cache[r.remote_group_id[1]]
    ELSE _get_port_security_group_bindings(d, r.remote_group_id[1])

\* _acl_remote_group_id with the empty_match flag never raised: a remote
\* group without other members then yields a rule entry with no membership
\* clause.  C8 must not hold of it.
_acl_remote_group_id_open(d, r, sg_ports_cache, port, remote_portdir) ==
    IF ~TruthyStr(r.remote_group_id)
    THEN [match |-> "", empty_match |-> FALSE, sg_ports_cache |-> sg_ports_cache]
    ELSE LET NotSelf(p) == p.port_id # port.id
             Match(all_ports, sg_ports) ==
                 [match |-> IF sg_ports = <<>> THEN ""
                            ELSE Concat(StripTrailingComma(
                                     <<" && " \o remote_portdir \o " == {">>
                                     \o PortIdPieces(sg_ports))) \o "}",
                  empty_match |-> FALSE,
                  sg_ports_cache |-> Put(sg_ports_cache, r.remote_group_id[1], all_ports)]
             Lookup(all_ports) == Match(all_ports, SelectSeq(all_ports, NotSelf))
         IN Lookup(RemoteGroupPorts(d, r, sg_ports_cache))

\* _acl_remote_group_id that caches the bindings after the subject port has
\* been filtered out of them: the next port compiled in the call gets a list
\* that misses the first.  C29 must not hold of it.
_acl_remote_group_id_caching_filtered(d, r, sg_ports_cache, port, remote_portdir) ==
    IF ~TruthyStr(r.remote_group_id)
    THEN [match |-> "", empty_match |-> FALSE, sg_ports_cache |-> sg_ports_cache]
    ELSE LET NotSelf(p) == p.port_id # port.id
             Match(sg_ports) ==
                 IF sg_ports = <<>>
                 THEN [match |-> "", empty_match |-> TRUE,
                       sg_ports_cache |-> Put(sg_ports_cache, r.remote_group_id[1], sg_ports)]
                 ELSE [match |-> Concat(StripTrailingComma(
                                     <<" && " \o remote_portdir \o " == {">>
                                     \o PortIdPieces(sg_ports))) \o "}",
                       empty_match |-> FALSE,
                       sg_ports_cache |-> Put(sg_ports_cache, r.remote_group_id[1], sg_ports)]
             Lookup(all_ports) == Match(SelectSeq(all_ports, NotSelf))
         IN Lookup(RemoteGroupPorts(d, r, sg_ports_cache))

\* _acl_remote_group_id without the filter on the subject port: a port that
\* is in the remote group is listed in its own membership clause.  C23 must
\* not hold of it.
_acl_remote_group_id_listing_self(d, r, sg_ports_cache, port, remote_portdir) ==
    IF ~TruthyStr(r.remote_group_id)
    THEN [match |-> "", empty_match |-> FALSE, sg_ports_cache |-> sg_ports_cache]
    ELSE LET Match(all_ports) ==
                 IF all_ports = <<>>
                 THEN [match |-> "", empty_match |-> TRUE,
                       sg_ports_cache |-> Put(sg_ports_cache, r.remote_group_id[1], all_ports)]
                 ELSE [match |-> Concat(StripTrailingComma(
                                     <<" && " \o remote_portdir \o " == {">>
                                     \o PortIdPieces(all_ports))) \o "}",
                       empty_match |-> FALSE,
                       sg_ports_cache |-> Put(sg_ports_cache, r.remote_group_id[1], all_ports)]
         IN Match(RemoteGroupPorts(d, r, sg_ports_cache))

\* Returns the match fragment, the empty_match flag and the cache as the
\* call leaves it.
_acl_remote_group_id(d, r, sg_ports_cache, port, remote_portdir) ==
    IF ~TruthyStr(r.remote_group_id)
    THEN [match |-> "", empty_match |-> FALSE, sg_ports_cache |-> sg_ports_cache]
    ELSE LET NotSelf(p) == p.port_id # port.id
             Match(all_ports, sg_ports) ==
                 IF sg_ports = <<>>
                 THEN [match |-> "", empty_match |-> TRUE,
                       sg_ports_cache |-> Put(sg_ports_cache, r.remote_group_id[1], all_ports)]
                 ELSE [match |-> Concat(StripTrailingComma(
                                     <<" && " \o remote_portdir \o " == {">>
                                     \o PortIdPieces(sg_ports))) \o "}",
                       empty_match |-> FALSE,
                       sg_ports_cache |-> Put(sg_ports_cache, r.remote_group_id[1], all_ports)]
             Lookup(all_ports) == Match(all_ports, SelectSeq(all_ports, NotSelf))
         IN Lookup(RemoteGroupPorts(d, r, sg_ports_cache))

\* _acl_protocol_and_ports without the test for -1: a bound of -1 is
\* matched on like a port.  C11 must not hold of it.
_acl_protocol_and_ports_matching_sentinel(r, icmp) ==
    LET protocol == IF r.protocol \in {Some("tcp"), Some("udp")} THEN r.protocol
                    ELSE IF r.protocol = Some("icmp") THEN icmp
                    ELSE None
        port_match == IF r.protocol = Some("icmp") THEN Str(icmp) \o ".type"
                      ELSE Str(protocol) \o ".dst"
    IN IF ~TruthyStr(protocol) THEN ""
       ELSE " && " \o Str(protocol)
            \o (IF TruthyInt(r.port_range_min)
                THEN " && " \o port_match \o " >= " \o ToString(r.port_range_min[1])
                ELSE "")
            \o (IF TruthyInt(r.port_range_max)
                THEN " && " \o port_match \o " <= " \o ToString(r.port_range_max[1])
                ELSE "")

_acl_protocol_and_ports(r, icmp) ==
    LET protocol == IF r.protocol \in {Some("tcp"), Some("udp")} THEN r.protocol
                    ELSE IF r.protocol = Some("icmp") THEN icmp
                    ELSE None
        port_match == IF r.protocol = Some("icmp") THEN Str(icmp) \o ".type"
                      ELSE Str(protocol) \o ".dst"
    IN IF ~TruthyStr(protocol) THEN ""
       ELSE " && " \o Str(protocol)
            \o (IF TruthyInt(r.port_range_min) /\ r.port_range_min # Some(-1)
                THEN " && " \o port_match \o " >= " \o ToString(r.port_range_min[1])
                ELSE "")
            \o (IF TruthyInt(r.port_range_max) /\ r.port_range_max # Some(-1)
                THEN " && " \o port_match \o " <= " \o ToString(r.port_range_max[1])
                ELSE "")

\* self._ovn.add_acl(...): the command that inserts one ACL row.
add_acl(lswitch, lport, priority, action, direction, match) ==
    [cmd |-> "add_acl", lswitch |-> lswitch, lport |-> lport, priority |-> priority,
     action |-> action, log |-> FALSE, direction |-> direction, match |-> match]

\* The ACL command of one rule for one port (None for an empty remote group)
\* and the bindings cache as the call leaves it.
_add_sg_rule_acl_for_port(d, port, r, sg_ports_cache) ==
    LET dir == _acl_direction(r, port)
        eth == _acl_ethertype(r)
        dir_map == IF r.direction = "ingress" THEN "to-lport" ELSE "from-lport"
        Command(grp) ==
            [cmd |-> IF grp.empty_match THEN None
                     ELSE Some(add_acl(ovn_name(port.network_id), port.id, ACL_PRIORITY_ALLOW,
                                       ACL_ACTION_ALLOW_RELATED, dir_map,
                                       dir.match \o eth.match \o _acl_remote_ip_prefix(r, eth.ip)
                                       \o grp.match \o _acl_protocol_and_ports(r, eth.icmp))),
             sg_ports_cache |-> grp.sg_ports_cache]
    IN Command(_acl_remote_group_id(d, r, sg_ports_cache, port, dir.remote_portdir))

\* The dedup key of an ACL command.
AclKey(cmd) == <<cmd.direction, cmd.priority, cmd.action, cmd.match>>

\* _add_acl_cmd with a key that leaves the match out: of two rules with the
\* same direction, priority and action the one visited first wins.  C9 must
\* not hold of it.
_add_acl_cmd_by_action(acls, cmd) ==
    IF cmd = None THEN acls
    ELSE IF \E i \in DOMAIN acls :
                <<acls[i].direction, acls[i].priority, acls[i].action>>
                = <<cmd[1].direction, cmd[1].priority, cmd[1].action>>
    THEN acls
    ELSE Append(acls, cmd[1])

\* acls is the dict of commands keyed by AclKey, kept here in insertion
\* order (the store holds a bag of rows, so the order is not observable).
_add_acl_cmd(acls, cmd) ==
    IF cmd = None THEN acls
    ELSE IF \E i \in DOMAIN acls : AclKey(acls[i]) = AclKey(cmd[1]) THEN acls
    ELSE Append(acls, cmd[1])

\* DhcpCommand without the test of the subnet's ip_version.  C6 must not
\* hold of it.
DhcpCommandAnyVersion(port, subnet) ==
    <<add_acl(ovn_name(port.network_id), port.id, ACL_PRIORITY_ALLOW,
              ACL_ACTION_ALLOW, "to-lport",
              "outport == \"" \o port.id \o "\" && ip4 && ip4.src == "
              \o subnet.cidr \o " && udp && udp.src == 67 && udp.dst == 68")>>

\* DhcpCommand for the requests rather than the replies: from the port, with
\* the port numbers exchanged.  C25 must not hold of it.
DhcpCommandForRequests(port, subnet) ==
    IF subnet.ip_version # 4 THEN <<>>
    ELSE <<add_acl(ovn_name(port.network_id), port.id, ACL_PRIORITY_ALLOW,
                   ACL_ACTION_ALLOW, "from-lport",
                   "inport == \"" \o port.id \o "\" && ip4 && ip4.src == "
                   \o subnet.cidr \o " && udp && udp.src == 68 && udp.dst == 67")>>

\* The DHCP command of one fixed IP on subnet, if any.
DhcpCommand(port, subnet) ==
    IF subnet.ip_version # 4 THEN <<>>
    ELSE <<add_acl(ovn_name(port.network_id), port.id, ACL_PRIORITY_ALLOW,
                   ACL_ACTION_ALLOW, "to-lport",
                   "outport == \"" \o port.id \o "\" && ip4 && ip4.src == "
                   \o subnet.cidr \o " && udp && udp.src == 67 && udp.dst == 68")>>

\* for ip in port['fixed_ips'], from index k on: the DHCP commands added to
\* the transaction, and the subnet cache.
RECURSIVE AclDhcpFrom(_, _, _)
AclDhcpFrom(port, k, subnet_cache) ==
    IF k > Len(port.fixed_ips) THEN [cmds |-> <<>>, subnet_cache |-> subnet_cache]
    ELSE LET subnet_id == port.fixed_ips[k].subnet_id
             subnet == IF subnet_id \in DOMAIN subnet_cache
                       THEN subnet_cache[subnet_id]
                       ELSE get_subnet(subnet_id)
             Then(rest) == [cmds |-> DhcpCommand(port, subnet) \o rest.cmds,
                            subnet_cache |-> rest.subnet_cache]
         IN Then(AclDhcpFrom(port, k + 1, Put(subnet_cache, subnet_id, subnet)))

_add_acl_dhcp(port, subnet_cache) == AclDhcpFrom(port, 1, subnet_cache)

_drop_all_ip_traffic_for_port(port) ==
    <<add_acl(ovn_name(port.network_id), port.id, ACL_PRIORITY_DROP, ACL_ACTION_DROP,
              "from-lport", "inport == \"" \o port.id \o "\" && ip"),
      add_acl(ovn_name(port.network_id), port.id, ACL_PRIORITY_DROP, ACL_ACTION_DROP,
              "to-lport", "outport == \"" \o port.id \o "\" && ip")>>

(***************************************************************************)
(* The ACL compiler.  caches is [sg_cache, sg_ports_cache, subnet_cache];  *)
(* sg_cache is None when the caller passes none.  The result holds the     *)
(* commands added to the caller's transaction and the caches afterwards.   *)
(***************************************************************************)
\* for r in sg['security_group_rules']: compile r and add it to acls
RECURSIVE AddRules(_, _, _, _, _)
AddRules(d, port, rules, acls, sg_ports_cache) ==
    IF rules = <<>> THEN [acls |-> acls, sg_ports_cache |-> sg_ports_cache]
    ELSE LET Then(one) == AddRules(d, port, Tail(rules), _add_acl_cmd(acls, one.cmd),
                                   one.sg_ports_cache)
         IN Then(_add_sg_rule_acl_for_port(d, port, Head(rules), sg_ports_cache))

\* for sg_id in sec_groups: fetch the group (through sg_cache) and add its rules
RECURSIVE AddGroups(_, _, _, _, _)
AddGroups(d, port, sec_groups, acls, caches) ==
    IF sec_groups = <<>> THEN [acls |-> acls, caches |-> caches]
    ELSE LET sg_id == Head(sec_groups)
             cached == caches.sg_cache # None /\ sg_id \in DOMAIN caches.sg_cache[1]
             sg == IF cached THEN caches.sg_cache[1][sg_id] ELSE get_security_group(d, sg_id)
             sg_cache == IF caches.sg_cache = None THEN None
                         ELSE Some(Put(caches.sg_cache[1], sg_id, sg))
             Then(done) == AddGroups(d, port, Tail(sec_groups), done.acls,
                                     [caches EXCEPT !.sg_cache = sg_cache,
                                                    !.sg_ports_cache = done.sg_ports_cache])
         IN Then(AddRules(d, port, sg.security_group_rules, acls, caches.sg_ports_cache))

\* _add_acls without the early return for a port that has no security
\* group.  C7 must not hold of it.
_add_acls_unguarded(d, port, caches) ==
    LET Emit(dhcp, rules) ==
            [cmds |-> _drop_all_ip_traffic_for_port(port) \o dhcp.cmds \o rules.acls,
             caches |-> rules.caches]
        Rules(dhcp) ==
            Emit(dhcp, AddGroups(d, port, port.security_groups, <<>>,
                                 [caches EXCEPT !.subnet_cache = dhcp.subnet_cache]))
    IN Rules(_add_acl_dhcp(port, caches.subnet_cache))

_add_acls(d, port, caches) ==
    IF port.security_groups = <<>> THEN [cmds |-> <<>>, caches |-> caches]
    ELSE LET Emit(dhcp, rules) ==
                 [cmds |-> _drop_all_ip_traffic_for_port(port) \o dhcp.cmds \o rules.acls,
                  caches |-> rules.caches]
             Rules(dhcp) ==
                 Emit(dhcp, AddGroups(d, port, port.security_groups, <<>>,
                                      [caches EXCEPT !.subnet_cache = dhcp.subnet_cache]))
         IN Rules(_add_acl_dhcp(port, caches.subnet_cache))

(***************************************************************************)
(* The topology store client (networking_ovn.ovsdb.impl_idl_ovn).  A       *)
(* command is a record naming the row operation; a transaction is a        *)
(* sequence of commands applied all or none.  store is the record          *)
(* [lswitches, lports, acls, lrouters]: dicts keyed by row name, and the   *)
(* bag of ACL rows.                                                        *)
(***************************************************************************)
OVN_NETWORK_NAME_EXT_ID_KEY == "neutron:network_name"

OVN_PHYSNET_EXT_ID_KEY == "neutron:provnet-physical-network"

OVN_NETTYPE_EXT_ID_KEY == "neutron:provnet-network-type"

OVN_SEGID_EXT_ID_KEY == "neutron:provnet-segmentation-id"

create_lswitch(lswitch_name, external_ids) ==
    [cmd |-> "create_lswitch", name |-> lswitch_name, external_ids |-> external_ids]

delete_lswitch(lswitch_name, if_exists) ==
    [cmd |-> "delete_lswitch", name |-> lswitch_name, if_exists |-> if_exists]

set_lswitch_ext_id(lswitch_name, key, value) ==
    [cmd |-> "set_lswitch_ext_id", name |-> lswitch_name, key |-> key, value |-> value]

create_lport(lport_name, lswitch_name, columns) ==
    [cmd |-> "create_lport", name |-> lport_name, lswitch |-> lswitch_name, columns |-> columns]

set_lport(lport_name, columns) ==
    [cmd |-> "set_lport", name |-> lport_name, columns |-> columns]

delete_lport(lport_name, lswitch_name) ==
    [cmd |-> "delete_lport", name |-> lport_name, lswitch |-> lswitch_name]

delete_acl(lswitch, lport) ==
    [cmd |-> "delete_acl", lswitch |-> lswitch, lport |-> lport]

create_lrouter(name, external_ids) ==
    [cmd |-> "create_lrouter", name |-> name, external_ids |-> external_ids]

update_lrouter(name, external_ids) ==
    [cmd |-> "update_lrouter", name |-> name, external_ids |-> external_ids]

delete_lrouter(name) ==
    [cmd |-> "delete_lrouter", name |-> name]

add_lrouter_port(name, lrouter, mac, network) ==
    [cmd |-> "add_lrouter_port", name |-> name, lrouter |-> lrouter, mac |-> mac,
     network |-> network]

set_lrouter_port_in_lport(lport, lrouter_port) ==
    [cmd |-> "set_lrouter_port_in_lport", lport |-> lport, lrouter_port |-> lrouter_port]

delete_lrouter_port(name, lrouter, if_exists) ==
    [cmd |-> "delete_lrouter_port", name |-> name, lrouter |-> lrouter, if_exists |-> if_exists]

\* The ACL row a command inserts.
AclRow(c) ==
    [lswitch |-> c.lswitch, lport |-> c.lport, direction |-> c.direction,
     priority |-> c.priority, action |-> c.action, match |-> c.match]

Remove(d, k) == [x \in DOMAIN d \ {k} |-> d[x]]

\* The rows of bag b other than those of logical switch lswitch.
RowsOffSwitch(b, lswitch) == [r \in {x \in DOMAIN b : x.lswitch # lswitch} |-> b[r]]

\* The rows of bag b other than those on lswitch tagged with lport.
RowsNotOfPort(b, lswitch, lport) ==
    [r \in {x \in DOMAIN b : ~(x.lswitch = lswitch /\ x.lport = lport)} |-> b[r]]

\* Whether running command c against the store raises.
CmdRaises(c, store) ==
    \/ c.cmd = "delete_lswitch" /\ ~c.if_exists /\ c.name \notin DOMAIN store.lswitches
    \/ c.cmd \in {"create_lport", "add_acl"} /\ c.lswitch \notin DOMAIN store.lswitches
    \/ c.cmd = "add_lrouter_port" /\ c.lrouter \notin DOMAIN store.lrouters
    \/ c.cmd = "add_lrouter_port" /\ c.name \in DOMAIN store.lrouter_ports
    \/ c.cmd = "set_lrouter_port_in_lport" /\ c.lport \notin DOMAIN store.lports
    \/ c.cmd = "delete_lrouter_port" /\ ~c.if_exists /\ c.name \notin DOMAIN store.lrouter_ports

\* The store after command c.
Apply(c, store) ==
    CASE c.cmd = "create_lswitch" ->
           IF c.name \in DOMAIN store.lswitches THEN store
           ELSE [store EXCEPT !.lswitches = Put(@, c.name, [external_ids |-> c.external_ids])]
      [] c.cmd = "delete_lswitch" ->
           IF c.name \notin DOMAIN store.lswitches THEN store
           ELSE LET OtherPort(p) == store.lports[p].lswitch # c.name
                IN [store EXCEPT !.lswitches = Remove(@, c.name),
                                 !.lports = [p \in {x \in DOMAIN @ : OtherPort(x)} |-> @[p]],
                                 !.acls = RowsOffSwitch(@, c.name)]
      [] c.cmd = "set_lswitch_ext_id" ->
           IF c.name \notin DOMAIN store.lswitches THEN store
           ELSE [store EXCEPT !.lswitches[c.name].external_ids = Put(@, c.key, c.value)]
      [] c.cmd = "create_lport" ->
           IF c.name \in DOMAIN store.lports THEN store
           ELSE [store EXCEPT !.lports = Put(@, c.name, [lswitch |-> c.lswitch, columns |-> c.columns])]
      [] c.cmd = "set_lport" ->
           IF c.name \notin DOMAIN store.lports THEN store
           ELSE [store EXCEPT !.lports[c.name].columns = c.columns]
      [] c.cmd = "delete_lport" ->
           IF c.name \notin DOMAIN store.lports THEN store
           ELSE [store EXCEPT !.lports = Remove(@, c.name)]
      [] c.cmd = "add_acl" ->
           [store EXCEPT !.acls = @ (+) SetToBag({AclRow(c)})]
      [] c.cmd = "delete_acl" ->
           [store EXCEPT !.acls = RowsNotOfPort(@, c.lswitch, c.lport)]
      [] c.cmd = "create_lrouter" ->
           IF c.name \in DOMAIN store.lrouters THEN store
           ELSE [store EXCEPT !.lrouters = Put(@, c.name, [external_ids |-> c.external_ids])]
      [] c.cmd = "update_lrouter" ->
           IF c.name \notin DOMAIN store.lrouters THEN store
           ELSE [store EXCEPT !.lrouters[c.name].external_ids = c.external_ids]
      [] c.cmd = "delete_lrouter" ->
           IF c.name \notin DOMAIN store.lrouters THEN store
           ELSE [store EXCEPT !.lrouters = Remove(@, c.name)]
      [] c.cmd = "add_lrouter_port" ->
           [store EXCEPT !.lrouter_ports =
               Put(@, c.name, [lrouter |-> c.lrouter, mac |-> c.mac, network |-> c.network])]
      [] c.cmd = "set_lrouter_port_in_lport" ->
           [store EXCEPT !.lports[c.lport].columns =
               [@ EXCEPT !.type = Some("router"),
                         !.options = Some(("router-port" :> c.lrouter_port))]]
      [] c.cmd = "delete_lrouter_port" ->
           IF c.name \notin DOMAIN store.lrouter_ports THEN store
           ELSE [store EXCEPT !.lrouter_ports = Remove(@, c.name)]

RECURSIVE RunCommands(_, _)
RunCommands(cmds, store) ==
    IF cmds = <<>> THEN [ok |-> TRUE, store |-> store]
    ELSE IF CmdRaises(Head(cmds), store) THEN [ok |-> FALSE, store |-> store]
    ELSE RunCommands(Tail(cmds), Apply(Head(cmds), store))


\* txn.execute(check_error=True): all commands or none.  unavailable says
\* the store cannot be reached for this transaction.  log records the
\* transaction and whether it committed.
execute(cmds, store, unavailable) ==
    LET Result(run) ==
            IF ~unavailable /\ run.ok
            THEN [ok |-> TRUE, store |-> run.store, log |-> <<[cmds |-> cmds, ok |-> TRUE]>>]
            ELSE [ok |-> FALSE, store |-> store, log |-> <<[cmds |-> cmds, ok |-> FALSE]>>]
    IN Result(RunCommands(cmds, store))

\* The transactions of plan from index k on, run in order until one fails;
\* down holds the indexes of the transactions that find the store
\* unavailable.
\* ExecutePlan that goes on to the next transaction after a failure.  C19
\* must not hold of it.
RECURSIVE ExecutePlanContinuing(_, _, _, _, _)
ExecutePlanContinuing(plan, k, store, down, log) ==
    IF k > Len(plan) THEN [ok |-> \A t \in DOMAIN log : log[t].ok, store |-> store, log |-> log]
    ELSE LET Then(res) ==
                 ExecutePlanContinuing(plan, k + 1, res.store, down, log \o res.log)
         IN Then(execute(plan[k], store, k \in down))

RECURSIVE ExecutePlan(_, _, _, _, _)
ExecutePlan(plan, k, store, down, log) ==
    IF k > Len(plan) THEN [ok |-> TRUE, store |-> store, log |-> log]
    ELSE LET Then(res) ==
                 IF res.ok THEN ExecutePlan(plan, k + 1, res.store, down, log \o res.log)
                 ELSE [ok |-> FALSE, store |-> store, log |-> log \o res.log]
         IN Then(execute(plan[k], store, k \in down))

(***************************************************************************)
(* The handlers.  d is the model store [networks, ports, security_groups,  *)
(* routers, next_net, next_port, next_router] and store the topology       *)
(* store before the call.  A handler yields the two stores after it, its   *)
(* result ("ok" or the error raised) and the transactions it ran.          *)
(***************************************************************************)
Outcome(d, store, result, txns) ==
    [db |-> d, ovn |-> store, result |-> result, txns |-> txns]

\* The outcome of a handler whose last step is the transaction res, the
\* model store d being committed either way.
Committed(d, res) ==
    Outcome(d, res.store, IF res.ok THEN "ok" ELSE "TopologyError", res.log)

_get_attribute(obj, attribute) == Get(obj, attribute)

\* int(s) for the decimal strings str() produces
int(s) == CHOOSE n \in 0..4095 : ToString(n) = s

\* create_network_in_ovn that names the logical switch after the network's
\* name instead of its id.  C21 must not hold of it.
create_network_in_ovn_by_name(store, network, ext_ids, unavailable) ==
    execute(<<create_lswitch(ovn_name(network.name),
                             Put(ext_ids, OVN_NETWORK_NAME_EXT_ID_KEY, network.name))>>,
            store, unavailable)

create_network_in_ovn(store, network, ext_ids, unavailable) ==
    execute(<<create_lswitch(ovn_name(network.id),
                             Put(ext_ids, OVN_NETWORK_NAME_EXT_ID_KEY, network.name))>>,
            store, unavailable)

\* delete_network without the deletion of the model row.  C3 must not hold
\* of it.
delete_network_keeping_row(d, store, network_id, unavailable) ==
    IF \E p \in DOMAIN d.ports : d.ports[p].network_id = network_id
    THEN Outcome(d, store, "NetworkInUse", <<>>)
    ELSE LET Done(res) == Outcome(d, res.store, "ok", res.log)
         IN Done(execute(<<delete_lswitch(ovn_name(network_id), TRUE)>>, store, unavailable))

\* Neutron refuses to delete a network that still has ports.  A failure of
\* the topology transaction is logged and swallowed.
delete_network(d, store, network_id, unavailable) ==
    IF \E p \in DOMAIN d.ports : d.ports[p].network_id = network_id
    THEN Outcome(d, store, "NetworkInUse", <<>>)
    ELSE LET Done(res) ==
                 Outcome([d EXCEPT !.networks = Remove(@, network_id)], res.store, "ok", res.log)
         IN Done(execute(<<delete_lswitch(ovn_name(network_id), TRUE)>>, store, unavailable))

\* The external ids create_network derives from the provider attributes.
ProviderExtIds(physnet, nettype, segid) ==
    IF ~TruthyStr(physnet) THEN EmptyDict
    ELSE IF TruthyInt(segid)
    THEN Put(Put(Put(EmptyDict, OVN_PHYSNET_EXT_ID_KEY, Str(physnet)),
                 OVN_NETTYPE_EXT_ID_KEY, Str(nettype)),
             OVN_SEGID_EXT_ID_KEY, ToString(segid[1]))
    ELSE Put(Put(EmptyDict, OVN_PHYSNET_EXT_ID_KEY, Str(physnet)),
             OVN_NETTYPE_EXT_ID_KEY, Str(nettype))

\* net is the request body; down holds the numbers of the transactions of
\* this call that find the topology store unavailable.
create_network(d, store, net_id, net, down) ==
    LET physnet == _get_attribute(net, "provider:physical_network")
        nettype == _get_attribute(net, "provider:network_type")
        segid == _get_attribute(net, "provider:segmentation_id")
        result == [id |-> net_id, name |-> net["name"]]
        d1 == [d EXCEPT !.networks = Put(@, net_id, result), !.next_net = @ + 1]
        RolledBack(created, undone) ==
            Outcome(undone.db, undone.ovn, "ServiceUnavailable", created.log \o undone.txns)
        Created(created) ==
            IF created.ok THEN Outcome(d1, created.store, "ok", created.log)
            ELSE RolledBack(created, delete_network(d1, created.store, net_id, 2 \in down))
    IN IF TruthyStr(physnet) /\ nettype \notin {Some("flat"), Some("vlan")}
       THEN Outcome(d, store, "InvalidInput", <<>>)
       ELSE Created(create_network_in_ovn(store, result,
                                          ProviderExtIds(physnet, nettype, segid), 1 \in down))

_set_network_name(store, network_id, name, unavailable) ==
    execute(<<set_lswitch_ext_id(ovn_name(network_id), OVN_NETWORK_NAME_EXT_ID_KEY, name)>>,
            store, unavailable)

\* pnet._raise_if_updates_provider_attributes
UpdatesProviderAttributes(attrs) ==
    \E k \in {"provider:physical_network", "provider:network_type", "provider:segmentation_id"} :
        k \in DOMAIN attrs

update_network(d, store, network_id, network, down) ==
    LET Named(named) ==
            IF named.ok
            THEN Outcome([d EXCEPT !.networks[network_id].name = network["name"]],
                         named.store, "ok", named.log)
            ELSE Outcome(d, store, "TopologyError", named.log)
    IN IF UpdatesProviderAttributes(network) THEN Outcome(d, store, "InvalidInput", <<>>)
       ELSE IF "name" \in DOMAIN network
       THEN Named(_set_network_name(store, network_id, network["name"], 1 \in down))
       ELSE Outcome(d, store, "ok", <<>>)

OVN_ROUTER_NAME_EXT_ID_KEY == "neutron:router_name"

\* create_router with the model row rolled back when the topology
\* transaction fails.  C5 must not hold of it.
create_router_rolling_back(d, store, router_id, router, down) ==
    LET Done(res) ==
            IF res.ok
            THEN Outcome([d EXCEPT !.routers = Put(@, router_id,
                                                   [id |-> router_id, name |-> router["name"]]),
                                   !.next_router = @ + 1],
                         res.store, "ok", res.log)
            ELSE Outcome([d EXCEPT !.next_router = @ + 1], store, "TopologyError", res.log)
    IN Done(execute(<<create_lrouter(ovn_name(router_id),
                                     Put(EmptyDict, OVN_ROUTER_NAME_EXT_ID_KEY, router["name"]))>>,
                    store, 1 \in down))

create_router(d, store, router_id, router, down) ==
    Committed([d EXCEPT !.routers = Put(@, router_id, [id |-> router_id, name |-> router["name"]]),
                        !.next_router = @ + 1],
              execute(<<create_lrouter(ovn_name(router_id),
                                       Put(EmptyDict, OVN_ROUTER_NAME_EXT_ID_KEY, router["name"]))>>,
                      store, 1 \in down))

delete_router(d, store, router_id, down) ==
    Committed([d EXCEPT !.routers = Remove(@, router_id)],
              execute(<<delete_lrouter(ovn_name(router_id))>>, store, 1 \in down))

update_router(d, store, id, router, down) ==
    Committed([d EXCEPT !.routers[id].name = router["name"]],
              execute(<<update_lrouter(ovn_name(id),
                                       Put(EmptyDict, OVN_ROUTER_NAME_EXT_ID_KEY, router["name"]))>>,
                      store, 1 \in down))

(***************************************************************************)
(* Ports.                                                                  *)
(***************************************************************************)
\* ovn_const.OVN_PORT_BINDING_PROFILE_PARAMS: the recognized parameter
\* groups, each mapping a key to the type its value must have.
OVN_PORT_BINDING_PROFILE == "binding:profile"

OVN_PORT_BINDING_PROFILE_PARAMS ==
    << [parent_name |-> "str", tag |-> "int"],
       [vtep_physical_switch |-> "str", vtep_logical_switch |-> "str"] >>

\* A profile value carries its Python type, "str" or "int".
Typed(type, value) == <<type, value>>

TypeOf(typed) == typed[1]

ValueOf(typed) == typed[2]

Rejected(result) == [result |-> result, data |-> EmptyDict]

\* The loop over the groups: the first group with a key in the profile
\* must be wholly present and must be all the profile holds.
RECURSIVE ParamSetLoop(_, _)
ParamSetLoop(profile, k) ==
    IF k > Len(OVN_PORT_BINDING_PROFILE_PARAMS)
    THEN [result |-> "ok", param_set |-> EmptyDict, param_dict |-> EmptyDict]
    ELSE LET param_keys == DOMAIN OVN_PORT_BINDING_PROFILE_PARAMS[k]
             found == param_keys \cap DOMAIN profile
         IN IF found = {}
            THEN ParamSetLoop(profile, k + 1)
            ELSE IF Cardinality(found) # Cardinality(param_keys)
            THEN [result |-> "InvalidInput", param_set |-> EmptyDict,
                  param_dict |-> EmptyDict]
            ELSE IF Cardinality(DOMAIN profile) # Cardinality(param_keys)
            THEN [result |-> "InvalidInput", param_set |-> EmptyDict,
                  param_dict |-> EmptyDict]
            ELSE [result |-> "ok",
                  param_set |-> OVN_PORT_BINDING_PROFILE_PARAMS[k],
                  param_dict |-> [key \in found |-> profile[key]]]

\* The checks on the matched group: value types, the parent port, the tag.
_validate_tag_above_zero(d, param_set, param_dict) ==
    IF \E key \in DOMAIN param_set : TypeOf(param_dict[key]) # param_set[key]
    THEN Rejected("InvalidInput")
    ELSE IF "parent_name" \in DOMAIN param_set
            /\ ValueOf(param_dict["parent_name"]) \notin DOMAIN d.ports
    THEN Rejected("PortNotFound")
    ELSE IF "tag" \in DOMAIN param_set /\ ValueOf(param_dict["tag"]) < 1
    THEN Rejected("InvalidInput")
    ELSE IF "tag" \in DOMAIN param_set /\ ValueOf(param_dict["tag"]) > 4095
    THEN Rejected("InvalidInput")
    ELSE [result |-> "ok",
          data |-> [key \in DOMAIN param_dict |-> ValueOf(param_dict[key])]]

_validate_binding_profile(d, param_set, param_dict) ==
    IF \E key \in DOMAIN param_set : TypeOf(param_dict[key]) # param_set[key]
    THEN Rejected("InvalidInput")
    ELSE IF "parent_name" \in DOMAIN param_set
            /\ ValueOf(param_dict["parent_name"]) \notin DOMAIN d.ports
    THEN Rejected("PortNotFound")
    ELSE IF "tag" \in DOMAIN param_set /\ ValueOf(param_dict["tag"]) < 0
    THEN Rejected("InvalidInput")
    ELSE IF "tag" \in DOMAIN param_set /\ ValueOf(param_dict["tag"]) > 4095
    THEN Rejected("InvalidInput")
    ELSE [result |-> "ok",
          data |-> [key \in DOMAIN param_dict |-> ValueOf(param_dict[key])]]

\* Yields [result, data]: data is the validated profile, the empty dict
\* when the request has no profile or the profile names no recognized key.
_get_data_from_binding_profile(d, port) ==
    IF OVN_PORT_BINDING_PROFILE \notin DOMAIN port
    THEN [result |-> "ok", data |-> EmptyDict]
    ELSE LET Then(loop) ==
                 IF loop.result # "ok" THEN Rejected(loop.result)
                 ELSE IF DOMAIN loop.param_dict = {}
                 THEN [result |-> "ok", data |-> EmptyDict]
                 ELSE _validate_binding_profile(d, loop.param_set, loop.param_dict)
         IN Then(ParamSetLoop(port[OVN_PORT_BINDING_PROFILE], 1))

_get_allowed_mac_addresses_from_port(port) ==
    {port.mac_address} \cup {port.allowed_address_pairs[i].mac_address :
                                i \in DOMAIN port.allowed_address_pairs}

_get_ovn_port_options(binding_profile, port) ==
    LET vtep_physical_switch == Get(binding_profile, "vtep_physical_switch")
    IN IF TruthyStr(vtep_physical_switch)
       THEN [type |-> Some("vtep"),
             options |-> Some([vtep_physical_switch |-> vtep_physical_switch,
                               vtep_logical_switch |-> Get(binding_profile, "vtep_logical_switch")]),
             addresses |-> <<"unknown">>,
             port_security |-> {},
             parent_name |-> None,
             tag |-> None]
       ELSE [type |-> None,
             options |-> None,
             addresses |-> IF "fixed_ips" \in DOMAIN port
                           THEN [i \in DOMAIN port.fixed_ips |->
                                    port.mac_address \o " " \o port.fixed_ips[i].ip_address]
                           ELSE <<port.mac_address>>,
             port_security |-> _get_allowed_mac_addresses_from_port(port),
             parent_name |-> Get(binding_profile, "parent_name"),
             tag |-> Get(binding_profile, "tag")]

OVN_PORT_NAME_EXT_ID_KEY == "neutron:port_name"

NoCaches == [sg_cache |-> None, sg_ports_cache |-> EmptyDict, subnet_cache |-> EmptyDict]

\* for binding in sg_ports: delete and recompile the ACLs of the bound port
RECURSIVE RefreshBindings(_, _, _, _)
RefreshBindings(d, sg_ports, exclude_ports, caches) ==
    IF sg_ports = <<>> THEN [cmds |-> <<>>, caches |-> caches]
    ELSE IF Head(sg_ports).port_id \in exclude_ports
    THEN RefreshBindings(d, Tail(sg_ports), exclude_ports, caches)
    ELSE LET port == d.ports[Head(sg_ports).port_id]
             Both(one, rest) ==
                 [cmds |-> <<delete_acl(ovn_name(port.network_id), port.id)>>
                           \o one.cmds \o rest.cmds,
                  caches |-> rest.caches]
             Then(one) == Both(one, RefreshBindings(d, Tail(sg_ports), exclude_ports, one.caches))
         IN Then(_add_acls(d, port, caches))

\* The one transaction that refreshes every port of a security group, and
\* the two shared caches afterwards (sg_cache lives for this call only).
\* _update_acls_for_security_group that skips no port.  C18 must not hold
\* of it.
_update_acls_excluding_none(d, security_group_id, sg_ports_cache, exclude_ports, subnet_cache) ==
    LET Done(done) == [cmds |-> done.cmds,
                       sg_ports_cache |-> done.caches.sg_ports_cache,
                       subnet_cache |-> done.caches.subnet_cache]
    IN Done(RefreshBindings(d, _get_port_security_group_bindings(d, security_group_id),
                            {},
                            [sg_cache |-> Some(EmptyDict),
                             sg_ports_cache |-> sg_ports_cache,
                             subnet_cache |-> subnet_cache]))

_update_acls_for_security_group(d, security_group_id, sg_ports_cache, exclude_ports, subnet_cache) ==
    LET Done(done) == [cmds |-> done.cmds,
                       sg_ports_cache |-> done.caches.sg_ports_cache,
                       subnet_cache |-> done.caches.subnet_cache]
    IN Done(RefreshBindings(d, _get_port_security_group_bindings(d, security_group_id),
                            exclude_ports,
                            [sg_cache |-> Some(EmptyDict),
                             sg_ports_cache |-> sg_ports_cache,
                             subnet_cache |-> subnet_cache]))

\* for sg_id in sg_ids: one refresh transaction each
RECURSIVE RefreshGroups(_, _, _, _, _)
RefreshGroups(d, sg_ids, sg_ports_cache, exclude_ports, subnet_cache) ==
    IF sg_ids = <<>>
    THEN [plan |-> <<>>, sg_ports_cache |-> sg_ports_cache, subnet_cache |-> subnet_cache]
    ELSE LET Both(one, rest) == [plan |-> <<one.cmds>> \o rest.plan,
                                 sg_ports_cache |-> rest.sg_ports_cache,
                                 subnet_cache |-> rest.subnet_cache]
             Then(one) == Both(one, RefreshGroups(d, Tail(sg_ids), one.sg_ports_cache,
                                                  exclude_ports, one.subnet_cache))
         IN Then(_update_acls_for_security_group(d, Head(sg_ids), sg_ports_cache,
                                                 exclude_ports, subnet_cache))

\* The members of set S in the order of sequence order: the order in which
\* a Python set of group ids is iterated.
InOrder(S, order) ==
    LET Member(x) == x \in S
    IN SelectSeq(order, Member)

\* The transactions that refresh every group holding a rule whose remote
\* group is sec_group.
_refresh_remote_security_group(d, sec_group, sg_ports_cache, exclude_ports, subnet_cache, order) ==
    LET refering_rules == RulesByRemoteGroup(d, sec_group)
        sg_ids == {r.security_group_id : r \in refering_rules}
    IN RefreshGroups(d, InOrder(sg_ids, order), sg_ports_cache, exclude_ports, subnet_cache)

\* for sg_id in sec_groups: _refresh_remote_security_group(sg_id, ...)
RECURSIVE RefreshRemotes(_, _, _, _, _, _)
RefreshRemotes(d, sec_groups, sg_ports_cache, exclude_ports, subnet_cache, order) ==
    IF sec_groups = <<>>
    THEN [plan |-> <<>>, sg_ports_cache |-> sg_ports_cache, subnet_cache |-> subnet_cache]
    ELSE LET Both(one, rest) == [plan |-> one.plan \o rest.plan,
                                 sg_ports_cache |-> rest.sg_ports_cache,
                                 subnet_cache |-> rest.subnet_cache]
             Then(one) == Both(one, RefreshRemotes(d, Tail(sec_groups), one.sg_ports_cache,
                                                   exclude_ports, one.subnet_cache, order))
         IN Then(_refresh_remote_security_group(d, Head(sec_groups), sg_ports_cache,
                                                exclude_ports, subnet_cache, order))

\* The columns of the tenant logical port.
LportColumns(port, ovn_port_info) ==
    [addresses |-> ovn_port_info.addresses,
     external_ids |-> Put(EmptyDict, OVN_PORT_NAME_EXT_ID_KEY, port.name),
     parent_name |-> ovn_port_info.parent_name,
     tag |-> ovn_port_info.tag,
     enabled |-> port.admin_state_up,
     options |-> ovn_port_info.options,
     type |-> ovn_port_info.type,
     port_security |-> ovn_port_info.port_security]

\* lswitch_name without the switch to the private logical switch on a
\* provider network.  C10 must not hold of it.
lswitch_name_shared(port, physnet) == ovn_name(port.network_id)

\* The logical switch that receives the port's logical ports: the private
\* switch named after the port on a provider network, the network's
\* switch otherwise.
lswitch_name(port, physnet) ==
    IF TruthyStr(physnet) THEN ovn_name(port.id) ELSE ovn_name(port.network_id)

\* The localnet port of a provider-network port.
LocalnetPort(port, net_ext_ids) ==
    LET physnet == Get(net_ext_ids, OVN_PHYSNET_EXT_ID_KEY)
        segid == Get(net_ext_ids, OVN_SEGID_EXT_ID_KEY)
        vlan_id == IF segid # None THEN Some(int(segid[1])) ELSE None
    IN create_lport("provnet-" \o port.id, lswitch_name(port, physnet),
                    [addresses |-> <<"unknown">>,
                     external_ids |-> Put(EmptyDict, OVN_PORT_NAME_EXT_ID_KEY, port.name),
                     type |-> Some("localnet"),
                     tag |-> vlan_id,
                     options |-> Some([network_name |-> Str(physnet)])])

\* for sg_id in port.get('security_group', []): the port dict holds its
\* groups under 'security_groups'.
CreatePortCascade(d, port, caches, order) ==
    RefreshRemotes(d, IF "security_group" \in DOMAIN port THEN port.security_group ELSE <<>>,
                   caches.sg_ports_cache, {port.id}, caches.subnet_cache, order)

\* The transactions of _create_port_in_ovn, in order; the logical switch of
\* the port's network exists.
CreatePortPlan(d, store, port, ovn_port_info, order) ==
    LET net_ext_ids == store.lswitches[ovn_name(port.network_id)].external_ids
        physnet == Get(net_ext_ids, OVN_PHYSNET_EXT_ID_KEY)
        private == IF TruthyStr(physnet)
                   THEN <<(<<create_lswitch(lswitch_name(port, physnet),
                                            Put(EmptyDict, OVN_PORT_NAME_EXT_ID_KEY, port.name))>>)>>
                   ELSE <<>>
        lports == (IF TruthyStr(physnet) THEN <<LocalnetPort(port, net_ext_ids)>> ELSE <<>>)
                  \o <<create_lport(port.id, lswitch_name(port, physnet),
                                    LportColumns(port, ovn_port_info))>>
        Plan(acls, cascade) == private \o <<(lports \o acls.cmds)>> \o cascade.plan
        Then(acls) == Plan(acls, CreatePortCascade(d, port, acls.caches, order))
    IN Then(_add_acls(d, port, NoCaches))

_create_port_in_ovn(d, store, port, ovn_port_info, down, order) ==
    IF ovn_name(port.network_id) \notin DOMAIN store.lswitches
    THEN Outcome(d, store, "RuntimeError", <<>>)
    ELSE Committed(d, ExecutePlan(CreatePortPlan(d, store, port, ovn_port_info, order),
                                  1, store, down, <<>>))

\* The port row Neutron stores for request body port under a fresh id.
NewPort(i, port) ==
    [id |-> PortId(i),
     name |-> port["name"],
     network_id |-> port["network_id"],
     mac_address |-> MacAddress(i),
     fixed_ips |-> [k \in DOMAIN port["fixed_ips"] |->
                      [subnet_id |-> port["fixed_ips"][k],
                       ip_address |-> IpAddress(port["fixed_ips"][k], i, k)]],
     security_groups |-> port["security_groups"],
     admin_state_up |-> port["admin_state_up"],
     allowed_address_pairs |-> IF "allowed_address_pairs" \in DOMAIN port
                               THEN port["allowed_address_pairs"] ELSE <<>>]

\* create_port that validates the binding profile after super().create_port:
\* a rejected request leaves its port row behind.  C12 must not hold of it.
create_port_validating_late(d, store, i, port, down, order) ==
    LET Then(binding_profile) ==
            LET db_port == NewPort(i, port)
                d1 == [d EXCEPT !.ports = Put(@, db_port.id, db_port),
                                !.next_port = @ + 1]
            IN IF binding_profile.result # "ok"
               THEN Outcome(d1, store, binding_profile.result, <<>>)
               ELSE _create_port_in_ovn(d1, store, db_port,
                        _get_ovn_port_options(binding_profile.data, db_port),
                        down, order)
    IN Then(_get_data_from_binding_profile(d, port))

create_port(d, store, i, port, down, order) ==
    LET Then(binding_profile) ==
            IF binding_profile.result # "ok"
            THEN Outcome(d, store, binding_profile.result, <<>>)
            ELSE LET db_port == NewPort(i, port)
                     d1 == [d EXCEPT !.ports = Put(@, db_port.id, db_port),
                                     !.next_port = @ + 1]
                     ovn_port_info ==
                         _get_ovn_port_options(binding_profile.data, db_port)
                 IN _create_port_in_ovn(d1, store, db_port, ovn_port_info,
                                        down, order)
    IN Then(_get_data_from_binding_profile(d, port))


\* The transactions of _update_port_in_ovn, in order.
\* UpdatePortPlan without the delete_acl of the port's transaction: the
\* port's new entries are added to the old ones.  C15 must not hold of it.
UpdatePortPlanKeepingAcls(d, sg_updated, original_port, port, ovn_port_info, order) ==
    LET old_sg_ids == Range(original_port.security_groups)
        new_sg_ids == Range(port.security_groups)
        Plan(acls, detached, attached) ==
            <<(<<set_lport(port.id, LportColumns(port, ovn_port_info))>> \o acls.cmds)>>
            \o (IF sg_updated THEN detached.plan \o attached.plan ELSE <<>>)
        Attach(acls, detached) ==
            Plan(acls, detached,
                 RefreshRemotes(d, InOrder(new_sg_ids \ old_sg_ids, order),
                                detached.sg_ports_cache, {port.id},
                                detached.subnet_cache, order))
        Detach(acls) ==
            Attach(acls, RefreshRemotes(d, InOrder(old_sg_ids \ new_sg_ids, order),
                                        acls.caches.sg_ports_cache, {port.id},
                                        acls.caches.subnet_cache, order))
    IN Detach(_add_acls(d, port, NoCaches))

UpdatePortPlan(d, sg_updated, original_port, port, ovn_port_info, order) ==
    LET old_sg_ids == Range(original_port.security_groups)
        new_sg_ids == Range(port.security_groups)
        Plan(acls, detached, attached) ==
            <<(<<set_lport(port.id, LportColumns(port, ovn_port_info)),
                 delete_acl(ovn_name(port.network_id), port.id)>> \o acls.cmds)>>
            \o (IF sg_updated THEN detached.plan \o attached.plan ELSE <<>>)
        Attach(acls, detached) ==
            Plan(acls, detached,
                 RefreshRemotes(d, InOrder(new_sg_ids \ old_sg_ids, order),
                                detached.sg_ports_cache, {port.id},
                                detached.subnet_cache, order))
        Detach(acls) ==
            Attach(acls, RefreshRemotes(d, InOrder(old_sg_ids \ new_sg_ids, order),
                                        acls.caches.sg_ports_cache, {port.id},
                                        acls.caches.subnet_cache, order))
    IN Detach(_add_acls(d, port, NoCaches))

_update_port_in_ovn(d, store, sg_updated, original_port, port, ovn_port_info, down, order) ==
    Committed(d, ExecutePlan(UpdatePortPlan(d, sg_updated, original_port, port,
                                            ovn_port_info, order),
                             1, store, down, <<>>))

\* update_security_group_on_port: the groups change when the request names
\* them and they differ, as a set, from the port's.
SgUpdated(original_port, port) ==
    /\ "security_groups" \in DOMAIN port
    /\ Range(port["security_groups"]) # Range(original_port.security_groups)

update_port(d, store, id, port, down, order) ==
    LET Then(binding_profile) ==
            IF binding_profile.result # "ok"
            THEN Outcome(d, store, binding_profile.result, <<>>)
            ELSE LET original_port == d.ports[id]
                     sg_updated == SgUpdated(original_port, port)
                     updated_port ==
                         [original_port EXCEPT
                             !.security_groups = IF sg_updated
                                                 THEN port["security_groups"] ELSE @,
                             !.admin_state_up = IF "admin_state_up" \in DOMAIN port
                                                THEN port["admin_state_up"] ELSE @]
                     d1 == [d EXCEPT !.ports[id] = updated_port]
                     ovn_port_info ==
                         _get_ovn_port_options(binding_profile.data, updated_port)
                 IN _update_port_in_ovn(d1, store, sg_updated, original_port,
                                        updated_port, ovn_port_info, down, order)
    IN Then(_get_data_from_binding_profile(d, port))


\* runtime_error says whether an unavailable store surfaces as the
\* RuntimeError the handler catches or as another exception.
delete_port(d, store, port_id, down, runtime_error) ==
    LET port == d.ports[port_id]
        missing == ovn_name(port.id) \notin DOMAIN store.lswitches
        d1 == [d EXCEPT !.ports = Remove(@, port_id)]
        Fallback(res1, res2) ==
            IF res2.ok THEN Outcome(d1, res2.store, "ok", res1.log \o res2.log)
            ELSE Outcome(d, store, "TopologyError", res1.log \o res2.log)
        First(res1) ==
            IF res1.ok THEN Outcome(d1, res1.store, "ok", res1.log)
            ELSE IF ~(missing \/ runtime_error) THEN Outcome(d, store, "TopologyError", res1.log)
            ELSE Fallback(res1, execute(<<delete_lport(port_id, ovn_name(port.network_id)),
                                          delete_acl(ovn_name(port.network_id), port.id)>>,
                                        store, 2 \in down))
    IN First(execute(<<delete_lswitch(ovn_name(port.id), FALSE)>>, store, 1 \in down))

(***************************************************************************)
(* Router interfaces.  db.router_ports holds Neutron's router-port rows    *)
(* [router_id, port_id]; a handler here also yields the port id its        *)
(* router_interface_info names.                                            *)
(***************************************************************************)
Returning(out, port_id) ==
    [db |-> out.db, ovn |-> out.ovn, result |-> out.result, txns |-> out.txns,
     port_id |-> port_id]

\* The interface ports of router router_id, in port order.
RouterPorts(d, router_id) ==
    LET Attached(p) == /\ p \in DOMAIN d.ports
                       /\ [router_id |-> router_id, port_id |-> p] \in d.router_ports
    IN SelectSeq([i \in 1..(d.next_port - 1) |-> PortId(i)], Attached)

\* [fip['subnet_id'] for fip in p['fixed_ips']]
PortSubnets(port) == [k \in DOMAIN port.fixed_ips |-> port.fixed_ips[k].subnet_id]

\* The subnets router router_id has an interface on.
RouterSubnets(d, router_id) ==
    UNION {Range(PortSubnets(d.ports[p])) : p \in Range(RouterPorts(d, router_id))}

\* str(netaddr.IPNetwork(subnet['cidr']).prefixlen)
PrefixLen(subnet) == IF subnet.ip_version = 4 THEN "24" ELSE "64"

\* super().add_router_interface: by port id the port, which must be free,
\* hold a fixed IP, at most one of them IPv4, and bring no subnet the router
\* is on already, becomes an interface of the router; by subnet id a port
\* is created on the subnet through create_port.
L3_add_router_interface(d, store, router_id, interface_info, down, order) ==
    IF "port_id" \in DOMAIN interface_info
    THEN LET p == interface_info["port_id"]
             OnIpv4(s) == s[2] = 4
         IN IF \/ p \notin DOMAIN d.ports
               \/ \E rp \in d.router_ports : rp.port_id = p
            THEN Returning(Outcome(d, store, "PortInUse", <<>>), "")
            ELSE IF \/ d.ports[p].fixed_ips = <<>>
                    \/ Len(SelectSeq(PortSubnets(d.ports[p]), OnIpv4)) > 1
                    \/ Range(PortSubnets(d.ports[p])) \cap RouterSubnets(d, router_id) # {}
            THEN Returning(Outcome(d, store, "BadRequest", <<>>), "")
            ELSE Returning(Outcome([d EXCEPT !.router_ports =
                                       @ \cup {[router_id |-> router_id, port_id |-> p]}],
                                   store, "ok", <<>>), p)
    ELSE LET subnet_id == interface_info["subnet_id"]
             p == PortId(d.next_port)
             Then(out) ==
                 IF out.result # "ok" THEN Returning(out, "")
                 ELSE Returning(Outcome([out.db EXCEPT !.router_ports =
                                            @ \cup {[router_id |-> router_id, port_id |-> p]}],
                                        out.ovn, "ok", out.txns), p)
         IN IF subnet_id \in RouterSubnets(d, router_id)
            THEN Returning(Outcome(d, store, "BadRequest", <<>>), "")
            ELSE Then(create_port(d, store, d.next_port,
                                  ("name" :> "" @@ "network_id" :> subnet_id[1]
                                      @@ "fixed_ips" :> <<subnet_id>>
                                      @@ "security_groups" :> <<>>
                                      @@ "admin_state_up" :> TRUE),
                                  down, order))

add_router_interface(d, store, router_id, interface_info, ovn_l3, down, order) ==
    LET Then(info) ==
            IF info.result # "ok" \/ ~ovn_l3 THEN info
            ELSE LET port == info.db.ports[info.port_id]
                     subnet == get_subnet(port.fixed_ips[1].subnet_id)
                     network == port.fixed_ips[1].ip_address \o "/" \o PrefixLen(subnet)
                     lrouter_port_name == ovn_lrouter_port_name(port.id)
                     Done(res) ==
                         Returning(Outcome(info.db, res.store,
                                           IF res.ok THEN "ok" ELSE "TopologyError",
                                           info.txns \o res.log),
                                   info.port_id)
                 IN Done(execute(<<add_lrouter_port(lrouter_port_name, ovn_name(router_id),
                                                    port.mac_address, network),
                                   set_lrouter_port_in_lport(port.id, lrouter_port_name)>>,
                                 info.ovn, (Len(info.txns) + 1) \in down))
    IN Then(L3_add_router_interface(d, store, router_id, interface_info, down, order))

\* The model store without port p and its router-port row.
WithoutInterface(d, p) ==
    LET Other(rp) == rp.port_id # p
    IN [d EXCEPT !.router_ports = {rp \in @ : Other(rp)}]

\* super().remove_router_interface: by port id the interface port is
\* deleted through delete_port; by subnet id the router's port on the
\* subnet loses the subnet's fixed IP when it holds others (through
\* update_port) and is deleted otherwise.
L3_remove_router_interface(d, store, router_id, interface_info, down, runtime_error, order) ==
    LET Deleted(p, out) ==
            IF out.result # "ok" THEN Returning(out, p)
            ELSE Returning(Outcome(WithoutInterface(out.db, p), out.ovn, "ok", out.txns), p)
        Delete(p) == Deleted(p, delete_port(d, store, p, down, runtime_error))
        Shrink(p, subnet_id) ==
            LET Kept(fip) == fip.subnet_id # subnet_id
                updated_port == [d.ports[p] EXCEPT !.fixed_ips = SelectSeq(@, Kept)]
            IN Returning(_update_port_in_ovn([d EXCEPT !.ports[p] = updated_port], store,
                                             FALSE, d.ports[p], updated_port,
                                             _get_ovn_port_options(EmptyDict, updated_port),
                                             down, order),
                         p)
    IN IF "port_id" \in DOMAIN interface_info
       THEN IF interface_info["port_id"] \notin Range(RouterPorts(d, router_id))
            THEN Returning(Outcome(d, store, "RouterInterfaceNotFound", <<>>), "")
            ELSE Delete(interface_info["port_id"])
       ELSE LET subnet_id == interface_info["subnet_id"]
                OnSubnet(p) == subnet_id \in Range(PortSubnets(d.ports[p]))
                ports == SelectSeq(RouterPorts(d, router_id), OnSubnet)
            IN IF ports = <<>>
               THEN Returning(Outcome(d, store, "RouterInterfaceNotFoundForSubnet", <<>>), "")
               ELSE IF Len(PortSubnets(d.ports[Head(ports)])) > 1
               THEN Shrink(Head(ports), subnet_id)
               ELSE Delete(Head(ports))

\* The port id remove_router_interface resolves from interface_info against
\* model store d.
ResolvePortId(d, router_id, interface_info) ==
    IF "port_id" \in DOMAIN interface_info THEN Some(interface_info["port_id"])
    ELSE IF "subnet_id" \in DOMAIN interface_info
    THEN LET subnet_id == interface_info["subnet_id"]
             subnet == get_subnet(subnet_id)
             Sole(p) == /\ d.ports[p].network_id = subnet.network_id
                        /\ subnet_id \in Range(PortSubnets(d.ports[p]))
                        /\ Len(PortSubnets(d.ports[p])) = 1
             ports == SelectSeq(RouterPorts(d, router_id), Sole)
         IN IF ports = <<>> THEN None ELSE Some(Head(ports))
    ELSE None

\* remove_router_interface that resolves the port id after the model-side
\* removal: by subnet id the interface port is gone by then and no logical
\* router port is deleted.  C22 must not hold of it.
remove_router_interface_resolving_late(d, store, router_id, interface_info, ovn_l3, down, runtime_error, order) ==
    LET Then(info) ==
            IF info.result # "ok" \/ ~ovn_l3 THEN info
            ELSE LET port_id == ResolvePortId(info.db, router_id, interface_info)
                     Done(res) ==
                         Returning(Outcome(info.db, res.store,
                                           IF res.ok THEN "ok" ELSE "TopologyError",
                                           info.txns \o res.log),
                                   info.port_id)
                 IN IF port_id = None THEN info
                    ELSE Done(execute(<<delete_lrouter_port(ovn_lrouter_port_name(port_id[1]),
                                                            ovn_name(router_id), FALSE)>>,
                                      info.ovn, (Len(info.txns) + 1) \in down))
    IN Then(L3_remove_router_interface(d, store, router_id, interface_info, down,
                                       runtime_error, order))

remove_router_interface(d, store, router_id, interface_info, ovn_l3, down, runtime_error, order) ==
    LET Then(info) ==
            IF info.result # "ok" \/ ~ovn_l3 THEN info
            ELSE LET port_id == ResolvePortId(d, router_id, interface_info)
                     Done(res) ==
                         Returning(Outcome(info.db, res.store,
                                           IF res.ok THEN "ok" ELSE "TopologyError",
                                           info.txns \o res.log),
                                   info.port_id)
                 IN IF port_id = None THEN info
                    ELSE Done(execute(<<delete_lrouter_port(ovn_lrouter_port_name(port_id[1]),
                                                            ovn_name(router_id), FALSE)>>,
                                      info.ovn, (Len(info.txns) + 1) \in down))
    IN Then(L3_remove_router_interface(d, store, router_id, interface_info, down,
                                       runtime_error, order))

(***************************************************************************)

(* Security groups.                                                        *)
(***************************************************************************)
\* The refresh every security-group handler ends with: one transaction,
\* fresh caches.
RefreshSecurityGroup(d, store, group_id, down) ==
    Committed(d, execute(_update_acls_for_security_group(d, group_id, EmptyDict, {},
                                                         EmptyDict).cmds,
                         store, 1 \in down))

update_security_group(d, store, id, security_group, down) ==
    RefreshSecurityGroup([d EXCEPT !.security_groups[id].name = security_group["name"]],
                         store, id, down)

\* The rule row Neutron stores for request body rule.
NewRule(rule) ==
    [id |-> rule["security_group_id"] \o "-" \o rule["key"],
     security_group_id |-> rule["security_group_id"],
     direction |-> rule["direction"],
     ethertype |-> rule["ethertype"],
     protocol |-> rule["protocol"],
     port_range_min |-> rule["port_range_min"],
     port_range_max |-> rule["port_range_max"],
     remote_ip_prefix |-> rule["remote_ip_prefix"],
     remote_group_id |-> rule["remote_group_id"]]

\* create_security_group_rule that refreshes the ACLs before the rule is in
\* the model store.  C17 must not hold of it.
create_security_group_rule_refreshing_first(d, store, rule, down) ==
    LET group_id == rule["security_group_id"]
        Then(res) ==
            Outcome([d EXCEPT !.security_groups[group_id].security_group_rules =
                                  Append(@, NewRule(rule))],
                    res.ovn, res.result, res.txns)
    IN Then(RefreshSecurityGroup(d, store, group_id, down))

create_security_group_rule(d, store, rule, down) ==
    LET group_id == rule["security_group_id"]
    IN RefreshSecurityGroup(
           [d EXCEPT !.security_groups[group_id].security_group_rules = Append(@, NewRule(rule))],
           store, group_id, down)

delete_security_group_rule(d, store, id, down) ==
    LET group_id == CHOOSE g \in DOMAIN d.security_groups :
                        \E r \in Range(d.security_groups[g].security_group_rules) : r.id = id
        Other(r) == r.id # id
    IN RefreshSecurityGroup(
           [d EXCEPT !.security_groups[group_id].security_group_rules = SelectSeq(@, Other)],
           store, group_id, down)


(***************************************************************************)
(* Requests.                                                               *)
(***************************************************************************)
\* Request bodies of create_network: a tenant network, a vlan and a flat
\* provider network, and a provider network of an unsupported type.
CreateNetworkInputs ==
    {("name" :> "a"),
     ("name" :> "a" @@ "provider:physical_network" :> "physnet1"
        @@ "provider:network_type" :> "vlan" @@ "provider:segmentation_id" :> 100),
     ("name" :> "a" @@ "provider:physical_network" :> "physnet1"
        @@ "provider:network_type" :> "flat"),
     ("name" :> "a" @@ "provider:physical_network" :> "physnet1"
        @@ "provider:network_type" :> "gre")}

UpdateNetworkInputs == {("name" :> "b")}

RouterInputs == {("name" :> "a")}

UpdateRouterInputs == {("name" :> "b")}

UpdateSecurityGroupInputs == {("name" :> "b")}

\* The security-group lists a port request may carry.
SgInputs == {<<>>, <<"sgA">>, <<"sgB">>, <<"sgA", "sgB">>}

\* The fixed IPs of a port request on network n: up to MaxFixedIps addresses
\* on the network's IPv4 subnet, or one on its IPv6 subnet.
MaxFixedIps == 2

FixedIpInputs(n) ==
    {[k \in 1..len |-> <<n, 4>>] : len \in 0..MaxFixedIps} \cup {<< <<n, 6>> >>}

CreatePortInputs(d) ==
    UNION {{("name" :> "a" @@ "network_id" :> n @@ "fixed_ips" :> f
               @@ "security_groups" :> s @@ "admin_state_up" :> TRUE) :
              f \in FixedIpInputs(n), s \in SgInputs} : n \in DOMAIN d.networks}

UpdatePortInputs ==
    {("security_groups" :> s) : s \in SgInputs} \cup {("admin_state_up" :> FALSE)}

\* The rules a request may create in a group: one whose remote group is sgB
\* and one for tcp port 80.
RuleInputs ==
    {[key |-> "rg", direction |-> "ingress", ethertype |-> "IPv4", protocol |-> None,
      port_range_min |-> None, port_range_max |-> None, remote_ip_prefix |-> None,
      remote_group_id |-> Some("sgB")],
     [key |-> "tcp", direction |-> "ingress", ethertype |-> "IPv4", protocol |-> Some("tcp"),
      port_range_min |-> Some(80), port_range_max |-> Some(80), remote_ip_prefix |-> None,
      remote_group_id |-> None]}

RuleInput(key, g) ==
    LET r == CHOOSE x \in RuleInputs : x.key = key
    IN [x \in DOMAIN r \cup {"security_group_id"} |-> IF x = "security_group_id" THEN g ELSE r[x]]

\* The orders in which a set of security-group ids may be iterated.
Orders == {<<"sgA", "sgB">>, <<"sgB", "sgA">>}

\* The choices of transactions, among n, that find the store unavailable:
\* none, or all from the k-th on.
Downs(n) == {k..n : k \in 1..(n + 1)}

(***************************************************************************)
(* The state machine.  Every action is one call of a handler.              *)
(***************************************************************************)
\* The plugin starts over a model store that holds tenant network n1 and
\* the security groups sgA and sgB, and a topology store in step with it.
\* The rules the groups hold then: sgA refers to sgB and allows tcp port 80,
\* sgB holds no rule.
InitRules == [sgA |-> <<"rg", "tcp">>, sgB |-> <<>>]

InitDb ==
    [networks |-> Put(EmptyDict, NetIds[1], [id |-> NetIds[1], name |-> "a"]),
     ports |-> EmptyDict,
     security_groups |->
         [g \in Range(SecGroupIds) |->
             [id |-> g, name |-> "a",
              security_group_rules |->
                  [k \in DOMAIN InitRules[g] |->
                      NewRule(RuleInput(InitRules[g][k], g))]]],
     routers |-> EmptyDict,
     router_ports |-> {},
     next_net |-> 2, next_port |-> 1, next_router |-> 1]

\* networking_ovn.common.config: native L3 is off unless the operator turns
\* it on.
DefaultConfig == [ovn_l3_mode |-> FALSE]

InitOvn ==
    [lswitches |-> Put(EmptyDict, ovn_name(NetIds[1]),
                       [external_ids |->
                           Put(EmptyDict, OVN_NETWORK_NAME_EXT_ID_KEY, "a")]),
     lports |-> EmptyDict, acls |-> EmptyBag, lrouters |-> EmptyDict,
     lrouter_ports |-> EmptyDict]

Init ==
    /\ db = InitDb
    /\ ovn = InitOvn
    /\ last = [op |-> "init", id |-> "", req |-> <<>>, result |-> "ok", txns |-> <<>>]
    /\ nops = 0
    /\ nfaults = 0
    /\ config = DefaultConfig
    /\ calls = <<>>

\* The state after the call of handler op on id with request body req and
\* outcome out; down holds the numbers of the call's transactions that
\* found the store unavailable, one of which the call did run.
Return(op, id, req, out, down) ==
    /\ nops < MaxOps
    /\ down # {} => nfaults < MaxFaults /\ \E k \in down : k <= Len(out.txns)
    /\ nfaults' = IF down # {} THEN nfaults + 1 ELSE nfaults
    /\ db' = out.db
    /\ ovn' = out.ovn
    /\ last' = [op |-> op, id |-> id, req |-> req, result |-> out.result, txns |-> out.txns]
    /\ nops' = nops + 1
    /\ UNCHANGED <<config, calls>>

CreateNetwork ==
    /\ db.next_net <= Len(NetIds)
    /\ \E net \in CreateNetworkInputs, down \in Downs(2) :
         Return("create_network", NetIds[db.next_net], net,
                create_network(db, ovn, NetIds[db.next_net], net, down), down)

DeleteNetwork ==
    \E n \in DOMAIN db.networks, down \in Downs(1) :
        Return("delete_network", n, <<>>, delete_network(db, ovn, n, 1 \in down), down)

UpdateNetwork ==
    \E n \in DOMAIN db.networks, net \in UpdateNetworkInputs, down \in Downs(1) :
        Return("update_network", n, net, update_network(db, ovn, n, net, down), down)

CreatePort ==
    /\ db.next_port <= MaxPorts
    /\ \E port \in CreatePortInputs(db), down \in Downs(2), order \in Orders :
         Return("create_port", PortId(db.next_port), port,
                create_port(db, ovn, db.next_port, port, down, order), down)

UpdatePort ==
    \E p \in DOMAIN db.ports, port \in UpdatePortInputs, down \in Downs(3), order \in Orders :
        Return("update_port", p, port, update_port(db, ovn, p, port, down, order), down)

DeletePort ==
    \E p \in DOMAIN db.ports, down \in SUBSET {1, 2}, runtime_error \in BOOLEAN :
        Return("delete_port", p, <<>>, delete_port(db, ovn, p, down, runtime_error), down)

CreateRouter ==
    /\ db.next_router <= Len(RouterIds)
    /\ \E router \in RouterInputs, down \in Downs(1) :
         Return("create_router", RouterIds[db.next_router], router,
                create_router(db, ovn, RouterIds[db.next_router], router, down), down)

UpdateRouter ==
    \E r \in DOMAIN db.routers, router \in UpdateRouterInputs, down \in Downs(1) :
        Return("update_router", r, router, update_router(db, ovn, r, router, down), down)

DeleteRouter ==
    \E r \in DOMAIN db.routers, down \in Downs(1) :
        Return("delete_router", r, <<>>, delete_router(db, ovn, r, down), down)

UpdateSecurityGroup ==
    \E g \in DOMAIN db.security_groups, sg \in UpdateSecurityGroupInputs, down \in Downs(1) :
        Return("update_security_group", g, sg,
               update_security_group(db, ovn, g, sg, down), down)

\* Neutron refuses a rule the group already holds.
CreateSecurityGroupRule ==
    \E g \in DOMAIN db.security_groups, r \in RuleInputs, down \in Downs(1) :
        /\ \A x \in Range(db.security_groups[g].security_group_rules) :
              x.id # NewRule(RuleInput(r.key, g)).id
        /\ Return("create_security_group_rule", g, RuleInput(r.key, g),
                  create_security_group_rule(db, ovn, RuleInput(r.key, g), down), down)

DeleteSecurityGroupRule ==
    \E g \in DOMAIN db.security_groups :
        \E r \in Range(db.security_groups[g].security_group_rules), down \in Downs(1) :
            Return("delete_security_group_rule", g, r.id,
                   delete_security_group_rule(db, ovn, r.id, down), down)

Next ==
    \/ CreateNetwork
    \/ DeleteNetwork
    \/ UpdateNetwork
    \/ CreatePort
    \/ UpdatePort
    \/ DeletePort
    \/ CreateRouter
    \/ UpdateRouter
    \/ DeleteRouter
    \/ UpdateSecurityGroup
    \/ CreateSecurityGroupRule
    \/ DeleteSecurityGroupRule

Spec == Init /\ [][Next]_vars

(***************************************************************************)
(* The handlers under a wider range of request bodies: binding profiles,   *)
(* provider attributes in a network update, and rules with a protocol and  *)
(* a port range.  The calls start from a state with one port, p1, bound to *)
(* group sgA.                                                              *)
(***************************************************************************)
MaxRequests == 2

\* A trunk profile: the parent port and the tag.
Trunk(parent_name, tag) == ("parent_name" :> parent_name @@ "tag" :> tag)

Vtep ==
    ("vtep_physical_switch" :> Typed("str", "ps1")
        @@ "vtep_logical_switch" :> Typed("str", "ls1"))

\* A vtep profile whose physical switch is the empty string.
VtepUnnamed ==
    ("vtep_physical_switch" :> Typed("str", "")
        @@ "vtep_logical_switch" :> Typed("str", "ls1"))

\* The tags of a trunk profile: the ends of the valid range, their
\* neighbours outside it, and a tag that is a string.
TagInputs ==
    {Typed("int", -1), Typed("int", 0), Typed("int", 4095), Typed("int", 4096),
     Typed("str", "5")}

\* The binding profiles of a port request: both groups whole, a trunk whose
\* parent is no port, the empty profile, strict subsets of a group, a group
\* with an extra key, keys of both groups, and unrecognized keys only.
ProfileInputs ==
    {Trunk(Typed("str", PortId(1)), tag) : tag \in TagInputs}
    \cup {Trunk(Typed("str", "p9"), Typed("int", 5)),
          Trunk(Typed("int", 1), Typed("int", 5)),
          Vtep,
          VtepUnnamed,
          <<>>,
          ("parent_name" :> Typed("str", PortId(1))),
          ("tag" :> Typed("int", 5)),
          ("vtep_physical_switch" :> Typed("str", "ps1")),
          Trunk(Typed("str", PortId(1)), Typed("int", 5)) @@ ("x" :> Typed("str", "y")),
          Vtep @@ ("x" :> Typed("str", "y")),
          Trunk(Typed("str", PortId(1)), Typed("int", 5)) @@ Vtep,
          ("tag" :> Typed("int", 5)) @@ ("vtep_logical_switch" :> Typed("str", "ls1")),
          ("x" :> Typed("str", "y"))}

\* The allowed-address-pairs of a port request whose port gets MAC mac: a
\* pair with the port's own MAC, and two pairs with one other MAC.
AddressPairInputs(mac) ==
    {<<[ip_address |-> "10.0.1.100", mac_address |-> mac]>>,
     <<[ip_address |-> "10.0.1.101", mac_address |-> "fa:16:3e:00:00:aa"],
       [ip_address |-> "10.0.1.102", mac_address |-> "fa:16:3e:00:00:aa"]>>}

CreatePortRequests(d) ==
    UNION {{("name" :> "a" @@ "network_id" :> n @@ "fixed_ips" :> << <<n, 4>> >>
               @@ "security_groups" :> s @@ "admin_state_up" :> TRUE
               @@ OVN_PORT_BINDING_PROFILE :> profile) :
              s \in {<<>>, <<"sgA">>}, profile \in ProfileInputs} :
           n \in DOMAIN d.networks}
    \cup {("name" :> "a" @@ "network_id" :> NetIds[1]
              @@ "fixed_ips" :> << <<NetIds[1], 4>> >>
              @@ "security_groups" :> <<>> @@ "admin_state_up" :> TRUE
              @@ "allowed_address_pairs" :> pairs
              @@ OVN_PORT_BINDING_PROFILE :> profile) :
             pairs \in AddressPairInputs(MacAddress(d.next_port)),
             profile \in {Vtep, VtepUnnamed, <<>>}}

UpdatePortRequests ==
    {(OVN_PORT_BINDING_PROFILE :> profile) : profile \in ProfileInputs}
    \cup {("admin_state_up" :> FALSE)}

UpdateNetworkRequests ==
    UpdateNetworkInputs
    \cup {("provider:network_type" :> "vlan"),
          ("name" :> "b" @@ "provider:segmentation_id" :> 7)}

\* The bounds of a rule's port range: absent, the sentinel -1, zero, a port.
PortRangeInputs == {None, Some(-1), Some(0), Some(80)}

BoundName(o) == IF o = None THEN "None" ELSE ToString(o[1])

\* The ingress rule requests of group g: every protocol with every pair of
\* bounds.
RuleRequests(g) ==
    {[key |-> direction \o "-" \o Str(protocol) \o "-" \o BoundName(port_range_min)
                 \o "-" \o BoundName(port_range_max),
      security_group_id |-> g,
      direction |-> direction, ethertype |-> "IPv4", protocol |-> protocol,
      port_range_min |-> port_range_min, port_range_max |-> port_range_max,
      remote_ip_prefix |-> None, remote_group_id |-> None] :
        direction \in {"ingress"},
        protocol \in {None, Some("tcp"), Some("udp"), Some("icmp")},
        port_range_min \in PortRangeInputs, port_range_max \in PortRangeInputs}

\* The state after the creation of p1, bound to sgA, on network n1.
FirstPort ==
    create_port(InitDb, InitOvn, 1,
                ("name" :> "a" @@ "network_id" :> NetIds[1]
                    @@ "fixed_ips" :> << <<NetIds[1], 4>> >>
                    @@ "security_groups" :> <<"sgA">> @@ "admin_state_up" :> TRUE),
                {}, <<"sgA", "sgB">>)

InitRequests ==
    /\ db = FirstPort.db
    /\ ovn = FirstPort.ovn
    /\ last = [op |-> "init", id |-> "", req |-> <<>>, result |-> "ok", txns |-> <<>>]
    /\ nops = 0
    /\ nfaults = 0
    /\ config = DefaultConfig
    /\ calls = <<>>

\* The state after a call that found the store available throughout.
Requested(op, id, req, out) ==
    /\ nops < MaxRequests
    /\ Return(op, id, req, out, {})

RequestCreateNetwork ==
    /\ db.next_net <= Len(NetIds)
    /\ \E net \in CreateNetworkInputs :
         Requested("create_network", NetIds[db.next_net], net,
                   create_network(db, ovn, NetIds[db.next_net], net, {}))

RequestUpdateNetwork ==
    \E n \in DOMAIN db.networks, net \in UpdateNetworkRequests :
        Requested("update_network", n, net, update_network(db, ovn, n, net, {}))

RequestCreatePort ==
    /\ db.next_port <= MaxPorts
    /\ \E port \in CreatePortRequests(db) :
         Requested("create_port", PortId(db.next_port), port,
                   create_port(db, ovn, db.next_port, port, {}, <<"sgA", "sgB">>))

RequestUpdatePort ==
    \E p \in DOMAIN db.ports, port \in UpdatePortRequests :
        Requested("update_port", p, port,
                  update_port(db, ovn, p, port, {}, <<"sgA", "sgB">>))

RequestCreateSecurityGroupRule ==
    \E r \in RuleRequests("sgA") :
        /\ \A x \in Range(db.security_groups["sgA"].security_group_rules) :
              x.id # NewRule(r).id
        /\ Requested("create_security_group_rule", "sgA", r,
                     create_security_group_rule(db, ovn, r, {}))

NextRequests ==
    \/ RequestCreateNetwork
    \/ RequestUpdateNetwork
    \/ RequestCreatePort
    \/ RequestUpdatePort
    \/ RequestCreateSecurityGroupRule

SpecRequests == InitRequests /\ [][NextRequests]_vars

(***************************************************************************)
(* Remote-group rules over three ports.  The plugin starts over a model    *)
(* store in which MaxMembers ports were created, each in one or both of    *)
(* the groups; the requests add remote-group rules to sgA and move ports   *)
(* between the groups.                                                     *)
(***************************************************************************)
MaxMembers == 3

\* The security groups of the ports created before the first request.
MembershipInputs == [1..MaxMembers -> {<<"sgA">>, <<"sgB">>, <<"sgA", "sgB">>}]

\* The stores after the creation of ports i..MaxMembers with groups m.
RECURSIVE PortsCreated(_, _, _, _)
PortsCreated(d, store, m, i) ==
    IF i > MaxMembers THEN [db |-> d, ovn |-> store]
    ELSE LET Then(out) == PortsCreated(out.db, out.ovn, m, i + 1)
         IN Then(create_port(d, store, i,
                             ("name" :> "a" @@ "network_id" :> NetIds[1]
                                 @@ "fixed_ips" :> << <<NetIds[1], 4>> >>
                                 @@ "security_groups" :> m[i] @@ "admin_state_up" :> TRUE),
                             {}, <<"sgA", "sgB">>))

InitMembersFrom(stores) ==
    /\ db = stores.db
    /\ ovn = stores.ovn
    /\ last = [op |-> "init", id |-> "", req |-> <<>>, result |-> "ok", txns |-> <<>>]
    /\ nops = 0
    /\ nfaults = 0
    /\ config = DefaultConfig
    /\ calls = <<>>

InitMembers == \E m \in MembershipInputs : InitMembersFrom(PortsCreated(InitDb, InitOvn, m, 1))

\* The remote-group rule requests of group g: each direction, each remote
\* group, with and without a protocol and port.
MemberRuleRequests(g) ==
    {[key |-> direction \o "-" \o remote \o "-" \o Str(protocol),
      security_group_id |-> g,
      direction |-> direction, ethertype |-> "IPv4", protocol |-> protocol,
      port_range_min |-> IF protocol = None THEN None ELSE Some(80),
      port_range_max |-> IF protocol = None THEN None ELSE Some(80),
      remote_ip_prefix |-> None, remote_group_id |-> Some(remote)] :
        direction \in {"ingress", "egress"},
        remote \in {"sgA", "sgB"},
        protocol \in {None, Some("tcp")}}

MembersCreateRule ==
    \E r \in MemberRuleRequests("sgA") :
        /\ \A x \in Range(db.security_groups["sgA"].security_group_rules) :
              x.id # NewRule(r).id
        /\ Requested("create_security_group_rule", "sgA", r,
                     create_security_group_rule(db, ovn, r, {}))

MembersUpdatePort ==
    \E p \in DOMAIN db.ports, s \in {<<"sgA">>, <<"sgB">>} :
        Requested("update_port", p, ("security_groups" :> s),
                  update_port(db, ovn, p, ("security_groups" :> s), {}, <<"sgA", "sgB">>))

NextMembers ==
    \/ MembersCreateRule
    \/ MembersUpdatePort

SpecMembers == InitMembers /\ [][NextMembers]_vars

(***************************************************************************)

(* Router interfaces.  The plugin starts with router r1 in both stores and *)
(* with native L3 on or off; the calls create ports on n1 and attach and   *)
(* detach interfaces of r1 by port id and by subnet id.                    *)
(***************************************************************************)
RouterCreated == create_router(InitDb, InitOvn, RouterIds[1], ("name" :> "a"), {})

InitL3 ==
    /\ db = RouterCreated.db
    /\ ovn = RouterCreated.ovn
    /\ last = [op |-> "init", id |-> "", req |-> <<>>, result |-> "ok", txns |-> <<>>]
    /\ nops = 0
    /\ nfaults = 0
    /\ config \in {[ovn_l3_mode |-> b] : b \in BOOLEAN}
    /\ calls = <<>>

\* The ports a tenant creates to attach them: on the IPv4 subnet, on the
\* IPv6 subnet, and on both.
L3PortInputs ==
    {("name" :> "a" @@ "network_id" :> NetIds[1] @@ "fixed_ips" :> f
         @@ "security_groups" :> <<>> @@ "admin_state_up" :> TRUE) :
       f \in {<< <<NetIds[1], 4>> >>, << <<NetIds[1], 6>> >>,
              << <<NetIds[1], 4>>, <<NetIds[1], 6>> >>}}

\* interface_info: a port of the model store, or a subnet of n1.
InterfaceInputs(d) ==
    {("port_id" :> p) : p \in DOMAIN d.ports}
    \cup {("subnet_id" :> s) : s \in {<<NetIds[1], 4>>, <<NetIds[1], 6>>}}

L3CreatePort ==
    /\ RouterIds[1] \in DOMAIN db.routers
    /\ \E port \in L3PortInputs, down \in Downs(1) :
         Return("create_port", PortId(db.next_port), port,
                create_port(db, ovn, db.next_port, port, down, <<"sgA", "sgB">>), down)

Interface(op, interface_info, out, down) == Return(op, out.port_id, interface_info, out, down)

AddRouterInterface ==
    \E interface_info \in InterfaceInputs(db), down \in Downs(2) :
        Interface("add_router_interface", interface_info,
                  add_router_interface(db, ovn, RouterIds[1], interface_info,
                                       config.ovn_l3_mode, down, <<"sgA", "sgB">>),
                  down)

RemoveRouterInterface ==
    \E interface_info \in InterfaceInputs(db), down \in Downs(3), runtime_error \in BOOLEAN :
        Interface("remove_router_interface", interface_info,
                  remove_router_interface(db, ovn, RouterIds[1], interface_info,
                                          config.ovn_l3_mode, down, runtime_error,
                                          <<"sgA", "sgB">>),
                  down)

NextL3 ==
    \/ L3CreatePort
    \/ AddRouterInterface
    \/ RemoveRouterInterface

SpecL3 == InitL3 /\ [][NextL3]_vars

(***************************************************************************)

(* Concurrent calls.  The API workers run handlers at the same time; a     *)
(* handler reads the model store, builds a transaction from what it read   *)
(* and runs it, and nothing orders the steps of one call against those of  *)
(* another.  Here two update_port calls are in flight, each attaching one  *)
(* port to sgB, over three ports of which p1 is in sgA, the group whose    *)
(* rule refers to sgB.  A step is one model transaction, one compilation   *)
(* (the model reads that fill a topology transaction) or one topology      *)
(* transaction.                                                            *)
(***************************************************************************)
\* The groups of p2 and of p3 before the calls.
AttachingInputs == {<<>>, <<"sgA">>}

\* The update_port call that attaches port id, in groups, to sgB.
Attaching(id, groups) ==
    [id |-> id, req |-> ("security_groups" :> groups \o <<"sgB">>), pc |-> "update_port",
     original_port |-> None, port |-> None, sg_updated |-> FALSE,
     sg_ports_cache |-> EmptyDict, subnet_cache |-> EmptyDict,
     sec_groups |-> <<>>, groups |-> <<>>, pending |-> <<>>,
     result |-> "ok", txns |-> <<>>]

InitConcurrentFrom(stores, g2, g3) ==
    /\ db = stores.db
    /\ ovn = stores.ovn
    /\ last = [op |-> "init", id |-> "", req |-> <<>>, result |-> "ok", txns |-> <<>>]
    /\ nops = 0
    /\ nfaults = 0
    /\ config = DefaultConfig
    /\ calls = <<Attaching(PortId(2), g2), Attaching(PortId(3), g3)>>

InitConcurrent ==
    \E g2 \in AttachingInputs, g3 \in AttachingInputs :
        InitConcurrentFrom(PortsCreated(InitDb, InitOvn, <<<<"sgA">>, g2, g3>>, 1), g2, g3)

\* A step of call i that leaves the stores alone.
CallStep(i, call) ==
    /\ calls' = [calls EXCEPT ![i] = call]
    /\ UNCHANGED <<last, nops, nfaults, config>>

\* update_port up to the end of its model transaction: the port row is
\* read and the updated row committed.
CommitModelIn(i) ==
    LET c == calls[i]
        original_port == db.ports[c.id]
        sg_updated == SgUpdated(original_port, c.req)
        updated_port == [original_port EXCEPT
                            !.security_groups = IF sg_updated
                                                THEN c.req["security_groups"] ELSE @]
    IN /\ c.pc = "update_port"
       /\ db' = [db EXCEPT !.ports[c.id] = updated_port]
       /\ ovn' = ovn
       /\ CallStep(i, [c EXCEPT !.pc = "_update_port_in_ovn",
                                !.original_port = Some(original_port),
                                !.port = Some(updated_port),
                                !.sg_updated = sg_updated])

\* _update_port_in_ovn inside its with block: the port's commands are
\* compiled from the model store as it is now.
CompiledOwn(i, c, acls) ==
    CallStep(i, [c EXCEPT !.pc = "execute",
                          !.pending = <<set_lport(c.id, LportColumns(c.port[1],
                                                   _get_ovn_port_options(EmptyDict, c.port[1]))),
                                        delete_acl(ovn_name(c.port[1].network_id), c.id)>>
                                      \o acls.cmds,
                          !.sg_ports_cache = acls.caches.sg_ports_cache,
                          !.subnet_cache = acls.caches.subnet_cache,
                          !.sec_groups =
                              IF c.sg_updated
                              THEN InOrder(Range(c.original_port[1].security_groups)
                                             \ Range(c.port[1].security_groups),
                                           <<"sgA", "sgB">>)
                                   \o InOrder(Range(c.port[1].security_groups)
                                                \ Range(c.original_port[1].security_groups),
                                              <<"sgA", "sgB">>)
                              ELSE <<>>])

CompileOwnIn(i) ==
    /\ calls[i].pc = "_update_port_in_ovn"
    /\ UNCHANGED <<db, ovn>>
    /\ CompiledOwn(i, calls[i], _add_acls(db, calls[i].port[1], NoCaches))

\* The end of a with block: the pending transaction runs against the
\* topology store; an exception ends the call.
Executed(i, c, res) ==
    /\ ovn' = res.store
    /\ CallStep(i, [c EXCEPT !.pc = IF res.ok THEN "refresh" ELSE "raised",
                             !.result = IF res.ok THEN "ok" ELSE "TopologyError",
                             !.pending = <<>>,
                             !.txns = @ \o res.log])

ExecuteIn(i) ==
    /\ calls[i].pc = "execute"
    /\ db' = db
    /\ Executed(i, calls[i], execute(calls[i].pending, ovn, FALSE))

\* _refresh_remote_security_group: the rules that refer to the next changed
\* group are read, their groups are the ones to refresh.
LookupReferringIn(i) ==
    LET c == calls[i]
        refering_rules == RulesByRemoteGroup(db, Head(c.sec_groups))
    IN /\ c.pc = "refresh"
       /\ c.groups = <<>>
       /\ c.sec_groups # <<>>
       /\ UNCHANGED <<db, ovn>>
       /\ CallStep(i, [c EXCEPT !.sec_groups = Tail(@),
                                !.groups = InOrder({r.security_group_id : r \in refering_rules},
                                                   <<"sgA", "sgB">>)])

\* _update_acls_for_security_group inside its with block: the bindings of
\* the group are read and the ACLs of its ports compiled, with the caches
\* of the call.
CompiledRefresh(i, c, one) ==
    CallStep(i, [c EXCEPT !.pc = "execute",
                          !.groups = Tail(@),
                          !.pending = one.cmds,
                          !.sg_ports_cache = one.sg_ports_cache,
                          !.subnet_cache = one.subnet_cache])

CompileRefreshIn(i) ==
    /\ calls[i].pc = "refresh"
    /\ calls[i].groups # <<>>
    /\ UNCHANGED <<db, ovn>>
    /\ CompiledRefresh(i, calls[i],
                       _update_acls_for_security_group(db, Head(calls[i].groups),
                                                       calls[i].sg_ports_cache, {calls[i].id},
                                                       calls[i].subnet_cache))

\* return port, or the exception of a failed transaction.
ReturnFromCallIn(i) ==
    LET c == calls[i]
    IN /\ \/ c.pc = "raised"
          \/ c.pc = "refresh" /\ c.groups = <<>> /\ c.sec_groups = <<>>
       /\ calls' = [calls EXCEPT ![i].pc = "done"]
       /\ last' = [op |-> "update_port", id |-> c.id, req |-> c.req, result |-> c.result,
                   txns |-> c.txns]
       /\ nops' = nops + 1
       /\ UNCHANGED <<db, ovn, nfaults, config>>

CommitModel == \E i \in DOMAIN calls : CommitModelIn(i)

CompileOwn == \E i \in DOMAIN calls : CompileOwnIn(i)

Execute == \E i \in DOMAIN calls : ExecuteIn(i)

LookupReferring == \E i \in DOMAIN calls : LookupReferringIn(i)

CompileRefresh == \E i \in DOMAIN calls : CompileRefreshIn(i)

ReturnFromCall == \E i \in DOMAIN calls : ReturnFromCallIn(i)

NextConcurrent ==
    \/ CommitModel
    \/ CompileOwn
    \/ Execute
    \/ LookupReferring
    \/ CompileRefresh
    \/ ReturnFromCall

SpecConcurrent == InitConcurrent /\ [][NextConcurrent]_vars

(***************************************************************************)

(* Observations used by the properties.                                    *)
(***************************************************************************)
\* The ACL rows the topology store holds for logical port lport.
AclsOf(store, lport) ==
    [r \in {x \in DOMAIN store.acls : x.lport = lport} |-> store.acls[r]]

\* The add_acl commands for logical port lport among cmds, in order.
AddAclsFor(cmds, lport) ==
    LET Mine(c) == c.cmd = "add_acl" /\ c.lport = lport
    IN SelectSeq(cmds, Mine)

\* The dedup keys of a sequence of ACL commands.
Keys(cmds) == {AclKey(cmds[i]) : i \in DOMAIN cmds}

\* The transactions of the last call in which the ACLs of port p were
\* compiled: a compile of a secured port always adds its drop entries.
CompiledIn(p) == {t \in DOMAIN last.txns : AddAclsFor(last.txns[t].cmds, p) # <<>>}

\* The rules of the groups of port p.
RulesOf(d, p) ==
    UNION {Range(d.security_groups[g].security_group_rules) :
              g \in Range(d.ports[p].security_groups)}

\* The ports bound to group g.
Members(d, g) == {p \in DOMAIN d.ports : g \in Range(d.ports[p].security_groups)}

\* The groups of port id before the last call, none for a port it created.
GroupsBefore(d, id) ==
    IF id \in DOMAIN d.ports THEN Range(d.ports[id].security_groups) ELSE {}

\* The model store without rule r.
Without(d, r) ==
    LET Other(x) == x.id # r.id
    IN [d EXCEPT !.security_groups[r.security_group_id].security_group_rules =
                     SelectSeq(@, Other)]

Reverse(s) == [i \in DOMAIN s |-> s[Len(s) + 1 - i]]

\* The model store with the rules of every group, and the groups of port
\* p, listed in the opposite order.
Reordered(d, p, groups, rules) ==
    [d EXCEPT !.ports[p].security_groups = IF groups THEN Reverse(@) ELSE @,
              !.security_groups =
                  [g \in DOMAIN @ |->
                      [@[g] EXCEPT !.security_group_rules = IF rules THEN Reverse(@) ELSE @]]]

(***************************************************************************)
(* C1.  Adding a port to remote group B regenerates the ACLs of the ports  *)
(* of every group A that refers to B.                                      *)
(***************************************************************************)
\* The ports other than id whose groups hold rule r.
PortsUnderRule(d, r, id) == Members(d, r.security_group_id) \ {id}

\* The row rule r compiles to for port q against model store d.
RowOfRule(d, q, r) == AclRow(_add_sg_rule_acl_for_port(d, d.ports[q], r, EmptyDict).cmd[1])

\* C1: after a successful create_port or update_port that adds port P to a
\* group B, every other port bound to a group with a rule whose remote group
\* is B holds the ACL row of that rule compiled against the new membership,
\* that is, with P listed in the remote-group match.
C1_CascadeOnNewMember ==
    [][(last'.op \in {"create_port", "update_port"} /\ last'.result = "ok")
        => \A B \in Range(db'.ports[last'.id].security_groups) \ GroupsBefore(db, last'.id) :
             \A r \in RulesByRemoteGroup(db', B) :
               \A q \in PortsUnderRule(db', r, last'.id) :
                 RowOfRule(db', q, r) \in DOMAIN AclsOf(ovn', q)]_vars

(***************************************************************************)
(* C2.  One run of the compiler adds no two entries with the same key.     *)
(***************************************************************************)
\* C2: in every transaction of a call, the ACL entries added for one port
\* have pairwise different (direction, priority, action, match) keys.
C2_NoDuplicateKeys ==
    \A t \in DOMAIN last.txns :
      \A p \in DOMAIN db.ports :
        \A i, j \in DOMAIN AddAclsFor(last.txns[t].cmds, p) :
          i # j => AclKey(AddAclsFor(last.txns[t].cmds, p)[i])
                   # AclKey(AddAclsFor(last.txns[t].cmds, p)[j])

(***************************************************************************)
(* C3.  create_network rolls the model row back when the switch creation   *)
(* fails.                                                                  *)
(***************************************************************************)
\* C3: when create_network ends with ServiceUnavailable (the network row
\* was committed and the creation of its logical switch failed), the model
\* store holds no row for the network.
C3_CreateNetworkRollsBack ==
    (last.op = "create_network" /\ last.result = "ServiceUnavailable")
    => last.id \notin DOMAIN db.networks

\* create_network failed in the topology store after committing the row.
C3_Witness ==
    /\ last.op = "create_network"
    /\ last.result = "ServiceUnavailable"
    /\ last.txns[1].cmds[1].cmd = "create_lswitch"
    /\ ~last.txns[1].ok
    /\ db.next_net = 3

(***************************************************************************)
(* C4.  create_port as one atomic topology transaction.                    *)
(***************************************************************************)
\* C4: when create_port fails in the topology store, none of the objects
\* of the operation exists there afterwards: no private switch, no localnet
\* port, no tenant port, no ACL entry of the port.
C4_CreatePortAtomic ==
    (last.op = "create_port" /\ last.result = "TopologyError")
    => /\ ovn_name(last.id) \notin DOMAIN ovn.lswitches
       /\ last.id \notin DOMAIN ovn.lports
       /\ ("provnet-" \o last.id) \notin DOMAIN ovn.lports
       /\ AclsOf(ovn, last.id) = EmptyBag

(***************************************************************************)
(* C5.  What a failed topology transaction leaves in the model store.      *)
(***************************************************************************)
\* The operations C5 is about.
C5_Operations ==
    {"update_network", "create_port", "update_port", "delete_port",
     "create_router", "update_router", "delete_router",
     "update_security_group", "create_security_group_rule", "delete_security_group_rule"}

\* The operations that run their topology transaction before they commit
\* the model change.
C5_TopologyFirst == {"update_network", "delete_port"}

\* The model store holds the change the last call asked for.
ModelChangeCommitted ==
    CASE last.op = "update_network" -> db.networks[last.id].name = last.req["name"]
      [] last.op = "create_port" ->
           /\ last.id \in DOMAIN db.ports
           /\ db.ports[last.id].security_groups = last.req["security_groups"]
      [] last.op = "update_port" ->
           /\ "security_groups" \in DOMAIN last.req
                => db.ports[last.id].security_groups = last.req["security_groups"]
           /\ "admin_state_up" \in DOMAIN last.req
                => db.ports[last.id].admin_state_up = last.req["admin_state_up"]
      [] last.op = "delete_port" -> last.id \notin DOMAIN db.ports
      [] last.op = "create_router" ->
           last.id \in DOMAIN db.routers /\ db.routers[last.id].name = last.req["name"]
      [] last.op = "update_router" -> db.routers[last.id].name = last.req["name"]
      [] last.op = "delete_router" -> last.id \notin DOMAIN db.routers
      [] last.op = "update_security_group" ->
           db.security_groups[last.id].name = last.req["name"]
      [] last.op = "create_security_group_rule" ->
           \E r \in Range(db.security_groups[last.id].security_group_rules) :
               r.id = NewRule(last.req).id
      [] last.op = "delete_security_group_rule" ->
           \A r \in Range(db.security_groups[last.id].security_group_rules) :
               r.id # last.req
      [] OTHER -> TRUE

SecuredWithoutRules(d, p) ==
    d.ports[p].security_groups # <<>> /\ RulesOf(d, p) = {}

\* The fixed IPs of port p on IPv4 subnets.
Ipv4FixedIps(d, p) ==
    LET OnIpv4(ip) == ip.subnet_id[2] = 4
    IN SelectSeq(d.ports[p].fixed_ips, OnIpv4)

\* cmds starts with the two drop-all entries of port p.
StartsWithDrops(cmds, p) ==
    /\ Len(cmds) >= 2
    /\ AclKey(cmds[1]) = <<"from-lport", 1001, "drop", "inport == \"" \o p \o "\" && ip">>
    /\ AclKey(cmds[2]) = <<"to-lport", 1001, "drop", "outport == \"" \o p \o "\" && ip">>

\* c is the DHCP bootstrap allow entry of port p for the subnet with cidr.
IsDhcpAllow(c, p, cidr) ==
    AclKey(c) = <<"to-lport", 1002, "allow",
                  "outport == \"" \o p \o "\" && ip4 && ip4.src == " \o cidr
                  \o " && udp && udp.src == 67 && udp.dst == 68">>

\* C6 as stated: a compile of a secured port whose groups hold no rule
\* emits exactly three entries, the two drop-all entries and the DHCP
\* bootstrap allow entry, none of them allow-related.
C6_DropsPlusOneDhcp ==
    \A p \in DOMAIN db.ports : \A t \in CompiledIn(p) :
      SecuredWithoutRules(db, p)
      => /\ StartsWithDrops(AddAclsFor(last.txns[t].cmds, p), p)
         /\ Len(AddAclsFor(last.txns[t].cmds, p)) = 3
         /\ AddAclsFor(last.txns[t].cmds, p)[3].action = "allow"

\* C6, amended: a compile of a secured port whose groups hold no rule emits
\* exactly the two drop-all entries followed by one DHCP bootstrap allow
\* entry per fixed IP of the port on an IPv4 subnet (none for a port without
\* such a fixed IP, two for two addresses), and no allow-related entry.
C6_DropsPlusDhcpPerIpv4FixedIp ==
    \A p \in DOMAIN db.ports : \A t \in CompiledIn(p) :
      SecuredWithoutRules(db, p)
      => /\ StartsWithDrops(AddAclsFor(last.txns[t].cmds, p), p)
         /\ Len(AddAclsFor(last.txns[t].cmds, p)) = 2 + Len(Ipv4FixedIps(db, p))
         /\ \A k \in DOMAIN Ipv4FixedIps(db, p) :
              IsDhcpAllow(AddAclsFor(last.txns[t].cmds, p)[2 + k], p,
                          "10.0." \o ToString(NetIndex(db.ports[p].network_id)) \o ".0/24")
         /\ \A k \in DOMAIN AddAclsFor(last.txns[t].cmds, p) :
              AddAclsFor(last.txns[t].cmds, p)[k].action # "allow-related"

\* create_port compiled a port of group sgB, which holds no rule, with one
\* IPv4 fixed IP, and the store holds its three rows.
C6_Witness ==
    /\ last.op = "create_port"
    /\ last.result = "ok"
    /\ SecuredWithoutRules(db, last.id)
    /\ Len(Ipv4FixedIps(db, last.id)) = 1
    /\ CompiledIn(last.id) # {}
    /\ DOMAIN AclsOf(ovn, last.id)
         = {[lswitch |-> ovn_name(db.ports[last.id].network_id), lport |-> last.id,
             direction |-> k[1], priority |-> k[2], action |-> k[3], match |-> k[4]] :
              k \in {<<"from-lport", 1001, "drop", "inport == \"" \o last.id \o "\" && ip">>,
                     <<"to-lport", 1001, "drop", "outport == \"" \o last.id \o "\" && ip">>,
                     <<"to-lport", 1002, "allow",
                       "outport == \"" \o last.id \o "\" && ip4 && ip4.src == 10.0.1.0/24"
                       \o " && udp && udp.src == 67 && udp.dst == 68">>}}

(***************************************************************************)
(* C7.  A port without security groups gets no ACL entry.                  *)
(***************************************************************************)
\* C7: no transaction of create_port, update_port or a security-group
\* refresh adds an ACL entry for a port that has no security group, and a
\* committed update_port of such a port leaves it without ACL rows.
C7_NoAclsWithoutGroups ==
    \A p \in DOMAIN db.ports :
      db.ports[p].security_groups = <<>>
      => /\ \A t \in DOMAIN last.txns : AddAclsFor(last.txns[t].cmds, p) = <<>>
         /\ (last.op \in {"create_port", "update_port"} /\ last.id = p /\ last.result = "ok")
              => AclsOf(ovn, p) = EmptyBag

\* update_port took the last group off a port: its transaction deleted the
\* port's ACL rows and added none.
C7_Witness ==
    /\ last.op = "update_port"
    /\ last.result = "ok"
    /\ last.req = ("security_groups" :> <<>>)
    /\ db.ports[last.id].security_groups = <<>>
    /\ \E i \in DOMAIN last.txns[1].cmds : last.txns[1].cmds[i].cmd = "delete_acl"
    /\ \E p \in DOMAIN db.ports : p # last.id /\ AclsOf(ovn, p) # EmptyBag

(***************************************************************************)
(* C8.  A rule whose remote group has no other member.                     *)
(***************************************************************************)
\* The rules of port p whose remote group has no member other than p.
RulesWithEmptyRemoteGroup(d, p) ==
    {r \in RulesOf(d, p) :
        r.remote_group_id # None /\ Members(d, r.remote_group_id[1]) \ {p} = {}}

\* C8: whenever the ACLs of a port are compiled, a rule of the port whose
\* remote group has no member other than the port contributes no entry: the
\* entries added are those of a compile against the store without that
\* rule, so the port's other rules are compiled as ever.
C8_EmptyRemoteGroupYieldsNoEntry ==
    \A p \in DOMAIN db.ports : \A t \in CompiledIn(p) :
      \A r \in RulesWithEmptyRemoteGroup(db, p) :
        AddAclsFor(last.txns[t].cmds, p)
          = _add_acls(Without(db, r), db.ports[p], NoCaches).cmds

\* create_port compiled a port of sgA while sgB, the remote group of sgA's
\* first rule, had no member: the store holds the port's tcp row and no row
\* for the remote-group rule.
C8_Witness ==
    /\ last.op = "create_port"
    /\ last.result = "ok"
    /\ db.ports[last.id].security_groups = <<"sgA">>
    /\ Members(db, "sgB") = {}
    /\ \E r \in RulesWithEmptyRemoteGroup(db, last.id) : r.id = "sgA-rg"
    /\ \E r \in RulesOf(db, last.id) : r.id = "sgA-tcp"
    /\ {x.match : x \in {y \in DOMAIN AclsOf(ovn, last.id) : y.action = "allow-related"}}
         = {"outport == \"" \o last.id \o "\" && ip4 && tcp && tcp.dst >= 80 && tcp.dst <= 80"}

(***************************************************************************)
(* C9.  The compiled key set does not depend on the visiting order.        *)
(***************************************************************************)
\* C9: whenever the ACLs of a port are compiled, the set of keys of the
\* entries added equals the key set of a second compile against the same
\* store, whether that compile visits the port's groups, the rules of each
\* group, or both in the opposite order.
C9_KeySetIndependentOfOrder ==
    \A p \in DOMAIN db.ports : \A t \in CompiledIn(p) :
      \A groups, rules \in BOOLEAN :
        Keys(AddAclsFor(last.txns[t].cmds, p))
          = Keys(_add_acls(Reordered(db, p, groups, rules),
                           Reordered(db, p, groups, rules).ports[p], NoCaches).cmds)

\* A port of both groups was compiled while another port was a member of
\* sgB, so that both rules of sgA yield an entry and the reordering changes
\* the order in which the entries are produced.
C9_Witness ==
    /\ last.op \in {"create_port", "update_port"}
    /\ last.result = "ok"
    /\ db.ports[last.id].security_groups = <<"sgA", "sgB">>
    /\ Members(db, "sgB") \ {last.id} # {}
    /\ Len(db.security_groups["sgA"].security_group_rules) = 2
    /\ Len(db.security_groups["sgB"].security_group_rules) >= 1
    /\ CompiledIn(last.id) # {}
    /\ _add_acls(db, db.ports[last.id], NoCaches).cmds
         # _add_acls(Reordered(db, last.id, TRUE, TRUE),
                     Reordered(db, last.id, TRUE, TRUE).ports[last.id], NoCaches).cmds

(***************************************************************************)
(* C10.  The shape of a port on a provider network.                        *)
(***************************************************************************)
\* The external ids of the logical switch of the network of port p.
NetworkExtIds(p) == ovn.lswitches[ovn_name(db.ports[p].network_id)].external_ids

\* The logical ports of logical switch name.
LportsOn(name) == {lp \in DOMAIN ovn.lports : ovn.lports[lp].lswitch = name}

\* C10: after a successful create_port on a network whose switch carries a
\* physical-network external id, the private switch named after the port
\* holds exactly two logical ports: the localnet port, whose tag is the
\* network's segmentation id (none when the network has none) and whose
\* options.network_name is the physical network, and the tenant port named
\* by the port id; the network's shared switch holds no logical port of it.
C10_ProviderPortShape ==
    (/\ last.op = "create_port"
     /\ last.result = "ok"
     /\ OVN_PHYSNET_EXT_ID_KEY \in DOMAIN NetworkExtIds(last.id))
    => /\ ovn_name(last.id) \in DOMAIN ovn.lswitches
       /\ LportsOn(ovn_name(last.id)) = {"provnet-" \o last.id, last.id}
       /\ ovn.lports["provnet-" \o last.id].columns.type = Some("localnet")
       /\ ovn.lports["provnet-" \o last.id].columns.options
            = Some([network_name |-> NetworkExtIds(last.id)[OVN_PHYSNET_EXT_ID_KEY]])
       /\ IF OVN_SEGID_EXT_ID_KEY \in DOMAIN NetworkExtIds(last.id)
          THEN /\ ovn.lports["provnet-" \o last.id].columns.tag # None
               /\ ToString(ovn.lports["provnet-" \o last.id].columns.tag[1])
                    = NetworkExtIds(last.id)[OVN_SEGID_EXT_ID_KEY]
          ELSE ovn.lports["provnet-" \o last.id].columns.tag = None
       /\ ovn.lports[last.id].columns.type = None
       /\ LportsOn(ovn_name(db.ports[last.id].network_id)) \cap {"provnet-" \o last.id, last.id} = {}

\* A port was created on the vlan network of physnet1 with segmentation id
\* 100: its private switch holds the localnet port tagged 100.
C10_Witness ==
    /\ last.op = "create_port"
    /\ last.result = "ok"
    /\ OVN_PHYSNET_EXT_ID_KEY \in DOMAIN NetworkExtIds(last.id)
    /\ NetworkExtIds(last.id)[OVN_PHYSNET_EXT_ID_KEY] = "physnet1"
    /\ OVN_SEGID_EXT_ID_KEY \in DOMAIN NetworkExtIds(last.id)
    /\ NetworkExtIds(last.id)[OVN_SEGID_EXT_ID_KEY] = "100"
    /\ ovn.lports["provnet-" \o last.id].lswitch = ovn_name(last.id)
    /\ ovn.lports["provnet-" \o last.id].columns.tag = Some(100)
    /\ ovn.lports[last.id].lswitch = ovn_name(last.id)

(***************************************************************************)
(* The handlers from a state in which two groups refer to sgB: sgA, and    *)
(* sgB itself.  Port p1 is bound to both.                                  *)
(***************************************************************************)
\* The state after sgB received a rule whose remote group is sgB.
SecondReference ==
    create_security_group_rule(InitDb, InitOvn, RuleInput("rg", "sgB"), {})

\* The state after the creation of p1, bound to sgA and sgB, on network n1.
MemberOfBoth ==
    create_port(SecondReference.db, SecondReference.ovn, 1,
                ("name" :> "a" @@ "network_id" :> NetIds[1]
                    @@ "fixed_ips" :> << <<NetIds[1], 4>> >>
                    @@ "security_groups" :> <<"sgA", "sgB">> @@ "admin_state_up" :> TRUE),
                {}, <<"sgA", "sgB">>)

\* Two calls are left.
InitCascade ==
    /\ db = MemberOfBoth.db
    /\ ovn = MemberOfBoth.ovn
    /\ last = [op |-> "init", id |-> "", req |-> <<>>, result |-> "ok", txns |-> <<>>]
    /\ nops = MaxOps - 2
    /\ nfaults = 0
    /\ config = DefaultConfig
    /\ calls = <<>>

SpecCascade == InitCascade /\ [][Next]_vars

(***************************************************************************)
(* C11: a port-range bound of -1 is no bound.                              *)
(***************************************************************************)
\* The match of a tcp or udp rule r of a group of port p without remote
\* prefix or group: lower and upper say which bounds it states.
PortRangeMatch(p, r, lower, upper) ==
    (IF r.direction = "ingress" THEN "outport" ELSE "inport")
    \o " == \"" \o p \o "\" && ip4 && " \o r.protocol[1]
    \o (IF lower THEN " && " \o r.protocol[1] \o ".dst >= " \o ToString(r.port_range_min[1])
        ELSE "")
    \o (IF upper THEN " && " \o r.protocol[1] \o ".dst <= " \o ToString(r.port_range_max[1])
        ELSE "")

\* The matches of the entries the last call issued for port p.
MatchesFor(p) ==
    UNION {{c.match : c \in Range(AddAclsFor(last.txns[t].cmds, p))} : t \in DOMAIN last.txns}

\* The last call created a tcp or udp rule each of whose bounds is -1 or a
\* port, one of them at least being -1.
SentinelRuleCreated ==
    /\ last.op = "create_security_group_rule"
    /\ last.result = "ok"
    /\ last.req.protocol \in {Some("tcp"), Some("udp")}
    /\ {last.req.port_range_min, last.req.port_range_max} \subseteq {Some(-1), Some(80)}
    /\ Some(-1) \in {last.req.port_range_min, last.req.port_range_max}

\* C11: when a tcp or udp rule is compiled for a port, a port_range_min of
\* -1 yields no lower-bound clause and a port_range_max of -1 yields no
\* upper-bound clause, while the other bound, set to a port, yields its
\* clause: the port's entries hold the match with exactly the clauses of the
\* bounds that are ports, and none of the matches that state a bound of -1.
C11_SentinelBoundIsNoBound ==
    SentinelRuleCreated =>
        \A p \in Members(db, last.req.security_group_id) :
            /\ PortRangeMatch(p, last.req, last.req.port_range_min # Some(-1),
                              last.req.port_range_max # Some(-1)) \in MatchesFor(p)
            /\ PortRangeMatch(p, last.req, TRUE, TRUE) \notin MatchesFor(p)
            /\ last.req.port_range_min = Some(-1) =>
                  PortRangeMatch(p, last.req, TRUE, FALSE) \notin MatchesFor(p)
            /\ last.req.port_range_max = Some(-1) =>
                  PortRangeMatch(p, last.req, FALSE, TRUE) \notin MatchesFor(p)

\* A tcp rule with no lower bound and upper bound 80 was compiled for p1.
C11_Witness ==
    /\ SentinelRuleCreated
    /\ last.req.protocol = Some("tcp")
    /\ last.req.port_range_min = Some(-1)
    /\ last.req.port_range_max = Some(80)
    /\ PortId(1) \in Members(db, last.req.security_group_id)
    /\ "outport == \"p1\" && ip4 && tcp && tcp.dst <= 80" \in MatchesFor(PortId(1))

(***************************************************************************)
(* C12: a request rejected as invalid writes nothing.                      *)
(***************************************************************************)
\* The results of a call whose request was rejected: invalid input, or a
\* parent port that does not exist.
RequestFailures == {"InvalidInput", "PortNotFound"}

\* C12: create_network with a provider network type other than flat or
\* vlan, update_network with provider attributes, create_port and
\* update_port with a malformed binding profile, an out-of-range tag or a
\* parent that is no port fail before any write: the call runs no
\* transaction and leaves the topology store and the model store as they
\* were.
C12_RejectedBeforeAnyWrite ==
    [][(nops' = nops + 1 /\ last'.result \in RequestFailures)
         => (db' = db /\ ovn' = ovn /\ last'.txns = <<>>)]_vars

\* The last call was rejected for the kind of request kind names.
RejectedAs(kind) ==
    /\ last.result \in RequestFailures
    /\ CASE kind = "type" ->
               /\ last.op = "create_network"
               /\ last.req["provider:network_type"] = "gre"
          [] kind = "provider" ->
               /\ last.op = "update_network"
               /\ "provider:network_type" \in DOMAIN last.req
          [] kind = "malformed" ->
               /\ last.op \in {"create_port", "update_port"}
               /\ DOMAIN last.req[OVN_PORT_BINDING_PROFILE] = {"tag"}
          [] kind = "tag" ->
               /\ last.op \in {"create_port", "update_port"}
               /\ last.req[OVN_PORT_BINDING_PROFILE]
                     = Trunk(Typed("str", PortId(1)), Typed("int", 4096))
          [] kind = "parent" ->
               /\ last.op \in {"create_port", "update_port"}
               /\ last.result = "PortNotFound"

\* A request with an out-of-range tag was rejected after a call that wrote
\* to both stores.
C12_Witness ==
    /\ RejectedAs("tag")
    /\ nops = 2
    /\ db # FirstPort.db
    /\ ovn # FirstPort.ovn

(***************************************************************************)
(* C13, C14: which binding profiles are accepted.                          *)
(***************************************************************************)
\* The last call was a port create or update whose request carried a
\* binding profile.
ProfileRequested ==
    /\ last.op \in {"create_port", "update_port"}
    /\ OVN_PORT_BINDING_PROFILE \in DOMAIN last.req

LastProfile == last.req[OVN_PORT_BINDING_PROFILE]

\* The key sets of the recognized parameter groups.
GroupKeySets ==
    {DOMAIN OVN_PORT_BINDING_PROFILE_PARAMS[k] : k \in DOMAIN OVN_PORT_BINDING_PROFILE_PARAMS}

RecognizedKeys == UNION GroupKeySets

\* C13: a non-empty binding profile is accepted only if its key set is
\* exactly the key set of one recognized parameter group; a strict subset
\* of a group, a group plus extra keys, keys from both groups, or only
\* unrecognized keys are rejected as invalid input.
C13_OnlyExactGroupAccepted ==
    (ProfileRequested /\ DOMAIN LastProfile # {} /\ DOMAIN LastProfile \notin GroupKeySets)
        => last.result = "InvalidInput"

\* The same, of the profiles that hold a recognized key.
C13_OnlyExactGroupAcceptedAmongRecognized ==
    (ProfileRequested /\ DOMAIN LastProfile \cap RecognizedKeys # {}
        /\ DOMAIN LastProfile \notin GroupKeySets)
        => last.result = "InvalidInput"

\* A profile of unrecognized keys only was accepted, and ignored.
C13_UnrecognizedAccepted ==
    /\ ProfileRequested
    /\ DOMAIN LastProfile = {"x"}
    /\ last.result = "ok"
    /\ ovn.lports[last.id].columns.parent_name = None
    /\ ovn.lports[last.id].columns.type = None

\* The last call carried a trunk profile whose parent is a string that
\* names a port.
TrunkRequested ==
    /\ ProfileRequested
    /\ DOMAIN LastProfile = {"parent_name", "tag"}
    /\ TypeOf(LastProfile["parent_name"]) = "str"
    /\ ValueOf(LastProfile["parent_name"]) \in DOMAIN db.ports \ {last.id}

RecompilingOps ==
    {"update_port", "update_security_group", "create_security_group_rule",
     "delete_security_group_rule"}

IsAclCmd(c, kind, p) == c.cmd = kind /\ c.lport = p

\* The ports whose ACLs the commands cmds, and transaction t of the last
\* call, delete or add.
Touched(cmds) == {c.lport : c \in {x \in Range(cmds) : x.cmd \in {"add_acl", "delete_acl"}}}

TouchedIn(t) == Touched(last.txns[t].cmds)

\* In cmds every add_acl of port p comes after a delete_acl of p.
DeletedFirst(cmds, p) ==
    \A i \in DOMAIN cmds :
        IsAclCmd(cmds[i], "add_acl", p) =>
            \E j \in 1..(i - 1) : IsAclCmd(cmds[j], "delete_acl", p)

\* The number of add_acl commands among cmds that insert row x.
Inserted(cmds, x) ==
    Cardinality({i \in DOMAIN cmds : cmds[i].cmd = "add_acl" /\ AclRow(cmds[i]) = x})

\* The rows the store holds for port p are those cmds insert, as often.
HoldsExactly(store, cmds, p) ==
    /\ \A x \in DOMAIN AclsOf(store, p) : store.acls[x] = Inserted(cmds, x)
    /\ \A i \in DOMAIN cmds :
          IsAclCmd(cmds[i], "add_acl", p) => AclRow(cmds[i]) \in DOMAIN store.acls

\* The committed transactions of the last call that touch port p.
CommittedFor(p) == {t \in DOMAIN last.txns : last.txns[t].ok /\ p \in TouchedIn(t)}

\* C15: every recompilation of the ACLs of an existing port, in update_port
\* and in the security-group refresh, comes after the deletion of the
\* port's entries in the same transaction; once the transaction has
\* committed, the port's entries in the store are exactly the compiled
\* ones, none when the port has no group left.
C15_RecompileReplaces ==
    last.op \in RecompilingOps =>
        \A t \in DOMAIN last.txns : \A p \in TouchedIn(t) :
            /\ DeletedFirst(last.txns[t].cmds, p)
            /\ (last.txns[t].ok /\ \A u \in CommittedFor(p) : u <= t) =>
                  /\ HoldsExactly(ovn, last.txns[t].cmds, p)
                  /\ db.ports[p].security_groups = <<>> => AclsOf(ovn, p) = <<>>

\* update_port took the last group off a port while another port keeps its
\* entries: the port's transaction committed and the store holds no entry
\* of the port.
C15_Witness ==
    /\ last.op = "update_port"
    /\ last.result = "ok"
    /\ "security_groups" \in DOMAIN last.req
    /\ last.req["security_groups"] = <<>>
    /\ last.id \in TouchedIn(1)
    /\ AclsOf(ovn, last.id) = <<>>
    /\ \E p \in DOMAIN db.ports : AclsOf(ovn, p) # <<>>

(***************************************************************************)
(* C16: the ACLs that list a deleted port.                                 *)
(***************************************************************************)
\* C16: after delete_port has removed a port that was bound to group B, no
\* remaining port bound to a group with a rule whose remote group is B
\* holds the row of that rule as it was compiled with the deleted port
\* listed in the remote-group match: the deletion regenerates those ACLs.
C16_DeletedMemberUnlisted ==
    [][(last'.op = "delete_port" /\ last'.result = "ok" /\ nops' = nops + 1)
        => \A B \in GroupsBefore(db, last'.id) :
             \A r \in RulesByRemoteGroup(db, B) :
               \A q \in PortsUnderRule(db, r, last'.id) :
                 RowOfRule(db, q, r) \notin DOMAIN AclsOf(ovn', q)]_vars

\* delete_port ran no transaction that compiles ACLs.
C16_DeletePortCompilesNothing ==
    last.op = "delete_port" => \A t \in DOMAIN last.txns : TouchedIn(t) \subseteq {last.id}

(***************************************************************************)
(* C17: the refresh that ends a security-group handler.                    *)
(***************************************************************************)
SecurityGroupOps ==
    {"update_security_group", "create_security_group_rule", "delete_security_group_rule"}

\* The model store holds the change the last security-group call asked for.
GroupChangeCommitted ==
    CASE last.op = "update_security_group" ->
           db.security_groups[last.id].name = last.req["name"]
      [] last.op = "create_security_group_rule" ->
           NewRule(last.req) \in Range(db.security_groups[last.id].security_group_rules)
      [] last.op = "delete_security_group_rule" ->
           \A r \in Range(db.security_groups[last.id].security_group_rules) :
               r.id # last.req

\* The store's rows for port p are those a fresh compilation of p against
\* the model store yields.
ReflectsModel(p) == HoldsExactly(ovn, _add_acls(db, db.ports[p], NoCaches).cmds, p)

\* C17: update_security_group, create_security_group_rule and
\* delete_security_group_rule commit the model change and then run one
\* single transaction that deletes and recompiles the ACLs of every port
\* bound to the changed group, and of no other port; when it commits, the
\* entries of every such port are those of the group's rules after the
\* change.
C17_OneRefreshTransaction ==
    last.op \in SecurityGroupOps =>
        /\ GroupChangeCommitted
        /\ Len(last.txns) = 1
        /\ TouchedIn(1) = Members(db, last.id)
        /\ \A p \in Members(db, last.id) : DeletedFirst(last.txns[1].cmds, p)
        /\ last.result = "ok" => \A p \in Members(db, last.id) : ReflectsModel(p)

\* A rule was created in a group with a bound port and the port's entries
\* hold the rule's row.
C17_Witness ==
    /\ last.op = "create_security_group_rule"
    /\ last.result = "ok"
    /\ \E p \in Members(db, last.id) :
          /\ AddAclsFor(last.txns[1].cmds, p) # <<>>
          /\ last.req.remote_group_id = None
          /\ RowOfRule(db, p, NewRule(last.req)) \in DOMAIN AclsOf(ovn, p)

(***************************************************************************)
(* C18: the cascade of update_port over a detached group.                  *)
(***************************************************************************)
\* C18: when update_port detaches group B from port P and succeeds, every
\* other port bound to a group with a rule whose remote group is B is
\* regenerated in a transaction after P's own: it no longer holds that
\* rule's row as compiled with P listed, and its entries are those of a
\* fresh compilation.  P itself is regenerated in exactly one transaction.
C18_DetachCascade ==
    [][(last'.op = "update_port" /\ last'.result = "ok" /\ nops' = nops + 1)
        => /\ Cardinality({t \in DOMAIN last'.txns :
                               last'.id \in Touched(last'.txns[t].cmds)}) = 1
           /\ \A B \in GroupsBefore(db, last'.id) \ Range(db'.ports[last'.id].security_groups) :
                \A r \in RulesByRemoteGroup(db', B) :
                  \A q \in PortsUnderRule(db', r, last'.id) :
                    /\ \E t \in 2..Len(last'.txns) : q \in Touched(last'.txns[t].cmds)
                    /\ RowOfRule(db, q, r) \notin DOMAIN AclsOf(ovn', q)
                    /\ HoldsExactly(ovn', _add_acls(db', db'.ports[q], NoCaches).cmds, q)]_vars

\* update_port took a port out of sgB, which has no member left, and a
\* later transaction of the call regenerated another port, which now holds
\* no row for its rule on sgB.
C18_Witness ==
    /\ last.op = "update_port"
    /\ last.result = "ok"
    /\ Members(db, "sgB") = {}
    /\ \E t \in 2..Len(last.txns) : \E q \in TouchedIn(t) :
          /\ q # last.id
          /\ last.id \notin TouchedIn(t)
          /\ \E r \in RulesOf(db, q) : r.remote_group_id = Some("sgB")
          /\ ReflectsModel(q)
          /\ \A x \in DOMAIN AclsOf(ovn, q) : x.priority = ACL_PRIORITY_ALLOW =>
                \E r \in RulesOf(db, q) : r.remote_group_id = None /\ x = RowOfRule(db, q, r)

(***************************************************************************)
(* C19: a failure in the middle of a cascade.                              *)
(***************************************************************************)
\* The commands of the committed transactions among txns, in order.
RECURSIVE CommittedCommands(_)
CommittedCommands(txns) ==
    IF txns = <<>> THEN <<>>
    ELSE (IF Head(txns).ok THEN Head(txns).cmds ELSE <<>>) \o CommittedCommands(Tail(txns))

\* The groups that hold a rule whose remote group is B.
Referencing(d, B) == {r.security_group_id : r \in RulesByRemoteGroup(d, B)}

\* C19: when a transaction of the cascade of update_port fails, the call
\* ends there with an error: the failed transaction is the last one the
\* call ran, and the topology store is the one before the call changed by
\* the transactions that committed earlier in the call and by nothing else.
C19_CascadeAbortsKeepingCommitted ==
    [][(last'.op = "update_port" /\ nops' = nops + 1
          /\ \E k \in 2..Len(last'.txns) : ~last'.txns[k].ok)
        => /\ \A k \in DOMAIN last'.txns : ~last'.txns[k].ok => k = Len(last'.txns)
           /\ last'.result = "TopologyError"
           /\ ovn' = RunCommands(CommittedCommands(last'.txns), ovn).store]_vars

\* update_port bound p2 to sgB, to which sgA and sgB refer: the refresh of
\* the first referencing group committed and p1 holds the row that lists
\* p2, the refresh of the second failed.
C19_Witness ==
    /\ last.op = "update_port"
    /\ last.id = PortId(2)
    /\ Referencing(db, "sgB") = {"sgA", "sgB"}
    /\ Len(last.txns) = 3
    /\ last.txns[2].ok
    /\ ~last.txns[3].ok
    /\ last.result = "TopologyError"
    /\ PortId(1) \in TouchedIn(2)
    /\ \E r \in RulesByRemoteGroup(db, "sgB") :
          /\ PortId(2) \in Members(db, "sgB")
          /\ RowOfRule(db, PortId(1), r) \in DOMAIN AclsOf(ovn, PortId(1))

\* The refresh of the first referencing group failed and the second group
\* was not refreshed.
C19_AbortedAtFirstGroup ==
    /\ last.op = "update_port"
    /\ last.id = PortId(2)
    /\ Referencing(db, "sgB") = {"sgA", "sgB"}
    /\ PortId(2) \in Members(db, "sgB")
    /\ Len(last.txns) = 2
    /\ last.txns[1].ok
    /\ ~last.txns[2].ok

(***************************************************************************)
(* C20: a failed transaction and the result of the call.                   *)
(***************************************************************************)
\* Transaction t of the last call failed.  The first transaction of
\* delete_port is left out: its failure is how the handler learns that the
\* port has no logical switch of its own.
FailedIn(t) ==
    /\ ~last.txns[t].ok
    /\ ~(last.op = "delete_port" /\ t = 1)

\* C20: a failure of a topology-store transaction is terminal for the
\* call: no call reports success after one of its transactions failed.
C20_FailureIsTerminal ==
    (\E t \in DOMAIN last.txns : FailedIn(t)) => last.result # "ok"

\* The same, of every call but delete_network.
C20_FailureIsTerminalButInDeleteNetwork ==
    (last.op # "delete_network" /\ \E t \in DOMAIN last.txns : FailedIn(t))
        => last.result # "ok"

\* delete_network reported success and removed the model row while the
\* deletion of the logical switch failed: the switch is still there.
C20_DeleteNetworkSwallows ==
    /\ last.op = "delete_network"
    /\ last.result = "ok"
    /\ ~last.txns[1].ok
    /\ last.id \notin DOMAIN db.networks
    /\ ovn_name(last.id) \in DOMAIN ovn.lswitches

(***************************************************************************)
(* C21: networks and their logical switches.                               *)
(***************************************************************************)
\* The logical switches of the store whose name is derived from a network
\* id.
NetworkSwitches == DOMAIN ovn.lswitches \cap {ovn_name(NetIds[i]) : i \in DOMAIN NetIds}

\* C21: as long as no call has found the topology store unavailable, the
\* logical switches named after a network id are those of the networks in
\* the model store, one each: every network has its switch and no switch
\* is left of a deleted network.
C21_SwitchPerNetwork ==
    nfaults = 0 => NetworkSwitches = {ovn_name(n) : n \in DOMAIN db.networks}

\* A network was created and another deleted: the store holds the switch
\* of the one and not of the other.
C21_Witness ==
    /\ nfaults = 0
    /\ last.op = "delete_network"
    /\ last.result = "ok"
    /\ DOMAIN db.networks = {NetIds[2]}
    /\ NetworkSwitches = {ovn_name(NetIds[2])}

(***************************************************************************)
(* C24: the addresses of a logical port.                                   *)
(***************************************************************************)
\* The last call created or updated a port that is no VTEP port, and the
\* store holds its logical port.
OrdinaryPortWritten ==
    /\ last.op \in {"create_port", "update_port"}
    /\ last.result = "ok"
    /\ last.id \in DOMAIN ovn.lports
    /\ ovn.lports[last.id].columns.type = None

\* One entry "<mac> <ip>" for each fixed IP of model port port.
AddressPerFixedIp(port) ==
    [i \in DOMAIN port.fixed_ips |-> port.mac_address \o " " \o port.fixed_ips[i].ip_address]

\* C24: the addresses of a port that is no VTEP port are one entry
\* "<mac> <ip>" for each fixed IP, and the single entry "<mac>" for a port
\* without fixed IPs, the port whose list of fixed IPs is empty included.
C24_AddressesPerFixedIpOrMac ==
    OrdinaryPortWritten =>
        ovn.lports[last.id].columns.addresses
            = IF db.ports[last.id].fixed_ips = <<>>
              THEN <<db.ports[last.id].mac_address>>
              ELSE AddressPerFixedIp(db.ports[last.id])

\* The same, of the ports that have a fixed IP.
C24_AddressesPerFixedIp ==
    (OrdinaryPortWritten /\ db.ports[last.id].fixed_ips # <<>>)
        => ovn.lports[last.id].columns.addresses = AddressPerFixedIp(db.ports[last.id])

\* A port whose list of fixed IPs is empty has no address at all.
C24_NoAddressWithoutFixedIp ==
    /\ OrdinaryPortWritten
    /\ db.ports[last.id].fixed_ips = <<>>
    /\ ovn.lports[last.id].columns.addresses = <<>>

(***************************************************************************)
(* C25: the DHCP bootstrap entries.                                        *)
(***************************************************************************)
\* The entries among cmds that are not made from a rule and are no drop.
PlainAllows(cmds) ==
    LET Plain(c) == c.action = ACL_ACTION_ALLOW
    IN SelectSeq(cmds, Plain)

\* C25: each compilation of a secured port emits, whatever the rules of its
\* groups, one DHCP bootstrap entry for each fixed IP on an IPv4 subnet and
\* none for a fixed IP on an IPv6 subnet: a to-lport allow entry that
\* matches udp from port 67 to port 68 with a source in the subnet's CIDR.
C25_DhcpPerIpv4FixedIp ==
    \A p \in DOMAIN db.ports : \A t \in CompiledIn(p) :
        /\ Len(PlainAllows(AddAclsFor(last.txns[t].cmds, p))) = Len(Ipv4FixedIps(db, p))
        /\ \A i \in DOMAIN Ipv4FixedIps(db, p) :
              /\ PlainAllows(AddAclsFor(last.txns[t].cmds, p))[i].direction = "to-lport"
              /\ PlainAllows(AddAclsFor(last.txns[t].cmds, p))[i].match
                   = "outport == \"" \o p \o "\" && ip4 && ip4.src == "
                     \o get_subnet(Ipv4FixedIps(db, p)[i].subnet_id).cidr
                     \o " && udp && udp.src == 67 && udp.dst == 68"

\* A port with a fixed IP on an IPv6 subnet only, in a group with rules,
\* was compiled without a DHCP entry while another port has one.
C25_Witness ==
    /\ \E p \in DOMAIN db.ports : \E t \in CompiledIn(p) :
          /\ Len(db.ports[p].fixed_ips) = 1
          /\ db.ports[p].fixed_ips[1].subnet_id[2] = 6
          /\ RulesOf(db, p) # {}
          /\ PlainAllows(AddAclsFor(last.txns[t].cmds, p)) = <<>>
    /\ \E q \in DOMAIN db.ports : \E x \in DOMAIN AclsOf(ovn, q) :
          /\ x.action = ACL_ACTION_ALLOW
          /\ RulesOf(db, q) = {}

(***************************************************************************)
(* C27: what delete_port leaves in the topology store.                     *)
(***************************************************************************)
\* This step is a successful delete_port of a port with security groups.
SecuredPortDeleted ==
    /\ last'.op = "delete_port"
    /\ last'.result = "ok"
    /\ last'.id \in DOMAIN db.ports
    /\ db.ports[last'.id].security_groups # <<>>

\* The last call deleted the private switch of the port.
PrivateSwitchDeleted ==
    /\ last.op = "delete_port"
    /\ last.result = "ok"
    /\ Len(last.txns) = 1

\* C27: after a successful delete_port of a port with security groups, no
\* ACL entry tagged with the port and no logical port named by its id
\* remains in the topology store, whatever the shape of the port.
C27_DeletePortLeavesNothing ==
    [][SecuredPortDeleted =>
          /\ AclsOf(ovn', last'.id) = <<>>
          /\ last'.id \notin DOMAIN ovn'.lports]_vars

\* The shared-switch shape: the fallback transaction removes the logical
\* port and every ACL entry tagged with it; the private-switch shape loses
\* its logical port with the switch.
C27_SharedShapeLeavesNothing ==
    [][SecuredPortDeleted =>
          /\ last'.id \notin DOMAIN ovn'.lports
          /\ Len(last'.txns) = 2 => AclsOf(ovn', last'.id) = <<>>]_vars

\* A provider port was deleted with its private switch, no transaction
\* having failed, and ACL entries tagged with it are still in the store.
C27_ProviderAclsRemain ==
    /\ PrivateSwitchDeleted
    /\ nfaults = 0
    /\ last.id \notin DOMAIN db.ports
    /\ AclsOf(ovn, last.id) # <<>>

(***************************************************************************)
(* C29: the per-call caches against reads of the model store.              *)
(***************************************************************************)
\* The rules of the groups sec_groups, each group read from the store.
RECURSIVE FreshRules(_, _)
FreshRules(d, sec_groups) ==
    IF sec_groups = <<>> THEN <<>>
    ELSE get_security_group(d, Head(sec_groups)).security_group_rules
         \o FreshRules(d, Tail(sec_groups))

\* The entries of rules for port, every remote group's bindings read from
\* the store.
RECURSIVE FreshAcls(_, _, _, _)
FreshAcls(d, port, rules, acls) ==
    IF rules = <<>> THEN acls
    ELSE FreshAcls(d, port, Tail(rules),
                   _add_acl_cmd(acls, _add_sg_rule_acl_for_port(d, port, Head(rules),
                                                                EmptyDict).cmd))

\* The DHCP entries of port from fixed IP k on, every subnet read from the
\* store.
RECURSIVE FreshDhcp(_, _)
FreshDhcp(port, k) ==
    IF k > Len(port.fixed_ips) THEN <<>>
    ELSE DhcpCommand(port, get_subnet(port.fixed_ips[k].subnet_id)) \o FreshDhcp(port, k + 1)

\* The ACL entries of port compiled without any cache.
FreshCompile(d, port) ==
    IF port.security_groups = <<>> THEN <<>>
    ELSE _drop_all_ip_traffic_for_port(port) \o FreshDhcp(port, 1)
         \o FreshAcls(d, port, FreshRules(d, port.security_groups), <<>>)

CachingOps == {"create_port", "update_port"} \cup SecurityGroupOps

\* C29: in a create_port, update_port or security-group refresh, the ACL
\* entries compiled for a port with the caches of the call, in the port's
\* own compile and in every cascade step, are the entries compiled by
\* reading the model store at every lookup; the caches of a call start
\* empty, so nothing an earlier call cached shows in them.
C29_CachedCompileIsFreshCompile ==
    last.op \in CachingOps =>
        \A p \in DOMAIN db.ports : \A t \in CompiledIn(p) :
            AddAclsFor(last.txns[t].cmds, p) = FreshCompile(db, db.ports[p])

\* An update_port after other calls compiled its own port and, in a cascade
\* step, another port whose remote group's bindings were cached by then.
C29_Witness ==
    /\ last.op = "update_port"
    /\ nops = MaxOps
    /\ CompiledIn(last.id) # {}
    /\ \E q \in DOMAIN db.ports \ {last.id} :
          /\ CompiledIn(q) # {}
          /\ \E r \in RulesOf(db, q) : r.remote_group_id \in
                 {Some(g) : g \in {db.ports[last.id].security_groups[i] :
                                      i \in DOMAIN db.ports[last.id].security_groups}}

(***************************************************************************)
(* C30: an update_port request without a binding profile.                  *)
(***************************************************************************)
\* This step is a successful update_port whose request names no binding
\* profile.
UpdatedWithoutProfile ==
    /\ last'.op = "update_port"
    /\ last'.result = "ok"
    /\ OVN_PORT_BINDING_PROFILE \notin DOMAIN last'.req
    /\ last'.id \in DOMAIN ovn.lports

\* C30: an update_port request that carries no binding profile leaves the
\* type, options, parent name and tag of the logical port as the last
\* request with a profile set them.
C30_UpdateWithoutProfileKeepsShape ==
    [][UpdatedWithoutProfile =>
          /\ ovn'.lports[last'.id].columns.type = ovn.lports[last'.id].columns.type
          /\ ovn'.lports[last'.id].columns.options = ovn.lports[last'.id].columns.options
          /\ ovn'.lports[last'.id].columns.parent_name
                = ovn.lports[last'.id].columns.parent_name
          /\ ovn'.lports[last'.id].columns.tag = ovn.lports[last'.id].columns.tag]_vars

\* What the handler does instead: without a profile the four columns are
\* written as unset, and the named attribute is written.
C30_UpdateWithoutProfileResets ==
    [][UpdatedWithoutProfile =>
          /\ ovn'.lports[last'.id].columns.type = None
          /\ ovn'.lports[last'.id].columns.options = None
          /\ ovn'.lports[last'.id].columns.parent_name = None
          /\ ovn'.lports[last'.id].columns.tag = None
          /\ ovn'.lports[last'.id].columns.enabled = last'.req["admin_state_up"]]_vars

\* A port created as a sub-interface or as a vtep port was updated without a
\* profile: its logical port is an ordinary one now.
C30_ShapeLost ==
    /\ last.op = "update_port"
    /\ last.result = "ok"
    /\ OVN_PORT_BINDING_PROFILE \notin DOMAIN last.req
    /\ last.id = PortId(2)
    /\ ovn.lports[last.id].columns.type = None
    /\ ovn.lports[last.id].columns.tag = None

(***************************************************************************)
(* C26: the shape of the logical port a binding profile resolves to.       *)
(***************************************************************************)
\* The last call wrote the logical port of its port.
PortWritten ==
    /\ last.op \in {"create_port", "update_port"}
    /\ last.result = "ok"
    /\ last.id \in DOMAIN ovn.lports

VtepRequested ==
    /\ ProfileRequested
    /\ "vtep_physical_switch" \in DOMAIN LastProfile

VtepShape(columns) ==
    /\ columns.type = Some("vtep")
    /\ columns.options
         = Some([vtep_physical_switch |-> Some(ValueOf(LastProfile["vtep_physical_switch"])),
                 vtep_logical_switch |-> Some(ValueOf(LastProfile["vtep_logical_switch"]))])
    /\ columns.addresses = <<"unknown">>
    /\ columns.port_security = {}
    /\ columns.parent_name = None
    /\ columns.tag = None

OrdinaryShape(columns, port) ==
    /\ columns.type = None
    /\ columns.port_security
         = {port.mac_address} \cup {pair.mac_address : pair \in Range(port.allowed_address_pairs)}

\* C26: a port whose binding profile contains vtep-physical-switch is
\* written with type 'vtep', the two vtep switches as its options, the one
\* address 'unknown', no allowed MAC, no parent name and no tag; any other
\* port is written with no type and with its own MAC and the MACs of its
\* allowed-address-pairs, each once, as allowed MACs.
C26_ShapeByVtepKey ==
    PortWritten =>
        IF VtepRequested
        THEN VtepShape(ovn.lports[last.id].columns)
        ELSE OrdinaryShape(ovn.lports[last.id].columns, db.ports[last.id])

\* The same with the test the code makes: the vtep shape for a
\* vtep-physical-switch that is not the empty string.
C26_ShapeByVtepValue ==
    PortWritten =>
        IF VtepRequested /\ ValueOf(LastProfile["vtep_physical_switch"]) # ""
        THEN VtepShape(ovn.lports[last.id].columns)
        ELSE OrdinaryShape(ovn.lports[last.id].columns, db.ports[last.id])

\* A profile with an empty vtep-physical-switch was accepted and its port
\* written as an ordinary port, its allowed-address-pair MAC allowed.
C26_UnnamedVtepIsOrdinary ==
    /\ PortWritten
    /\ VtepRequested
    /\ ovn.lports[last.id].columns.type = None
    /\ Cardinality(ovn.lports[last.id].columns.port_security) = 2

\* A vtep port with allowed-address-pairs was written without allowed MACs.
C26_VtepWritten ==
    /\ PortWritten
    /\ VtepShape(ovn.lports[last.id].columns)
    /\ db.ports[last.id].allowed_address_pairs # <<>>

(***************************************************************************)
(* C23: the membership clause of a remote-group rule.                      *)
(***************************************************************************)
\* The rules of the groups of port p that name a remote group.
RemoteRules(d, p) == {r \in RulesOf(d, p) : r.remote_group_id # None}

\* The ports bound to the remote group of rule r, port p apart.
OtherMembers(d, r, p) == Members(d, r.remote_group_id[1]) \ {p}

\* "x","y",... for the port ids s
RECURSIVE Quoted(_)
Quoted(s) ==
    IF s = <<>> THEN ""
    ELSE "\"" \o Head(s) \o "\"" \o (IF Tail(s) = <<>> THEN "" ELSE "," \o Quoted(Tail(s)))

\* The match of IPv4 rule r for port p when its membership clause lists the
\* port ids s: the clause is over inport for an ingress rule and over
\* outport for an egress rule, the port's own clause over the other field.
MemberMatch(r, p, s) ==
    (IF r.direction = "ingress" THEN "outport" ELSE "inport")
    \o " == \"" \o p \o "\" && ip4 && "
    \o (IF r.direction = "ingress" THEN "inport" ELSE "outport")
    \o " == {" \o Quoted(s) \o "}"
    \o (IF r.protocol = None THEN "" ELSE " && tcp && tcp.dst >= 80 && tcp.dst <= 80")

\* The lists of port ids a membership clause may hold.
MemberLists(d) == UNION {[1..n -> DOMAIN d.ports] : n \in 1..MaxMembers}

\* s lists every port of set S once.
ListsExactly(s, S) == Range(s) = S /\ Len(s) = Cardinality(S)

MembershipListed(d, p, matches) ==
    /\ \A r \in RemoteRules(d, p) :
          OtherMembers(d, r, p) # {} =>
              \E s \in MemberLists(d) :
                  /\ ListsExactly(s, OtherMembers(d, r, p))
                  /\ MemberMatch(r, p, s) \in matches
    /\ \A r \in RemoteRules(d, p) : \A s \in MemberLists(d) :
          MemberMatch(r, p, s) \in matches =>
              \E r2 \in RemoteRules(d, p) :
                  /\ MemberMatch(r2, p, s) = MemberMatch(r, p, s)
                  /\ ListsExactly(s, OtherMembers(d, r2, p))

\* C23: in every compilation of a port, a rule whose remote group has
\* another member yields an entry whose match holds a membership clause
\* over the opposite-direction port field (inport for ingress, outport for
\* egress) listing exactly the ports now bound to the remote group, the
\* compiled port apart: every other member once, the subject port never.
C23_MembershipClause ==
    \A p \in DOMAIN db.ports : \A t \in CompiledIn(p) :
        MembershipListed(db, p, {c.match : c \in Range(AddAclsFor(last.txns[t].cmds, p))})

\* An egress rule on a remote group that the compiled port is in itself,
\* with two other members, was compiled: the port's entry lists both others
\* over outport.
C23_Witness ==
    /\ last.op = "create_security_group_rule"
    /\ last.req.direction = "egress"
    /\ \E p \in DOMAIN db.ports :
          /\ p \in Members(db, last.req.remote_group_id[1])
          /\ Cardinality(OtherMembers(db, NewRule(last.req), p)) = 2
          /\ \E s \in MemberLists(db), x \in DOMAIN AclsOf(ovn, p) :
                /\ x.match = MemberMatch(NewRule(last.req), p, s)
                /\ x.direction = "from-lport"
                /\ Len(s) = 2

(***************************************************************************)
(* C22: attaching and detaching a router interface.                        *)
(***************************************************************************)
\* The last call detached an interface with native L3 on.
InterfaceRemoved ==
    /\ config.ovn_l3_mode
    /\ last.op = "remove_router_interface"
    /\ last.result = "ok"

\* This step detaches, by subnet id, with native L3 on.
RemovingBySubnet ==
    /\ config.ovn_l3_mode
    /\ last'.op = "remove_router_interface"
    /\ "subnet_id" \in DOMAIN last'.req

\* The logical router port of p is deleted in this step.
LrpDeleted(p) ==
    /\ ovn_lrouter_port_name(p) \in DOMAIN ovn.lrouter_ports
    /\ ovn_lrouter_port_name(p) \notin DOMAIN ovn'.lrouter_ports

\* C22: with native L3 on, once remove_router_interface has detached an
\* interface that add_router_interface attached, by the interface's port id
\* or by its subnet id, the topology store holds no logical router port of
\* the interface port; the port id is resolved against the model store as
\* it was before the model-side removal, and by subnet id only an interface
\* port of the router whose one fixed-IP subnet is that subnet is selected.
C22_DetachRemovesRouterPort ==
    /\ [](InterfaceRemoved /\ last.id \notin DOMAIN db.ports
            => ovn_lrouter_port_name(last.id) \notin DOMAIN ovn.lrouter_ports)
    /\ [][RemovingBySubnet =>
            \A p \in DOMAIN db.ports :
                LrpDeleted(p) =>
                    /\ p \in Range(RouterPorts(db, RouterIds[1]))
                    /\ PortSubnets(db.ports[p]) = <<last'.req["subnet_id"]>>]_vars

\* An interface attached by subnet id, its logical router port written, was
\* detached by subnet id: its port is gone from the model store and no
\* logical router port is left.
C22_Witness ==
    /\ InterfaceRemoved
    /\ nfaults = 0
    /\ "subnet_id" \in DOMAIN last.req
    /\ Len(last.txns) = 3
    /\ last.txns[3].cmds[1].cmd = "delete_lrouter_port"
    /\ last.id \notin DOMAIN db.ports
    /\ DOMAIN ovn.lrouter_ports = {}

(***************************************************************************)
(* C28: two update_port calls attaching to one group at the same time.     *)
(***************************************************************************)
\* Both calls have returned their port.
BothAttached ==
    /\ calls # <<>>
    /\ \A i \in DOMAIN calls : calls[i].pc = "done" /\ calls[i].result = "ok"

\* C28: once two concurrent update_port calls that each attach a port to
\* sgB have completed, every port of a group with a rule on remote group
\* sgB holds the rule's entry compiled against the final membership, with
\* both attached ports listed, however the steps of the calls interleaved.
C28_NoStaleMembership ==
    BothAttached =>
        \A r \in RulesByRemoteGroup(db, "sgB") :
            \A q \in Members(db, r.security_group_id) :
                RowOfRule(db, q, r) \in DOMAIN AclsOf(ovn, q)

\* Both calls have completed and port p1, of group sgA, is left with an
\* entry that lists one of the two attached ports only.
C28_StaleSnapshot ==
    /\ BothAttached
    /\ \E r \in RulesByRemoteGroup(db, "sgB") : \E x \in DOMAIN AclsOf(ovn, PortId(1)) :
          /\ x.match \in {MemberMatch(r, PortId(1), <<PortId(2)>>),
                          MemberMatch(r, PortId(1), <<PortId(3)>>)}
          /\ RowOfRule(db, PortId(1), r) \notin DOMAIN AclsOf(ovn, PortId(1))

(***************************************************************************)
(* C31: the bound clauses of a tcp, udp or icmp rule.                      *)
(***************************************************************************)
\* The match of an IPv4 tcp, udp or icmp rule r of a group of port p without
\* remote prefix or group: lower and upper say which bounds it states, on
\* <protocol>.dst for tcp and udp and on icmp4.type for icmp.
BoundedMatch(p, r, lower, upper) ==
    LET tag == IF r.protocol = Some("icmp") THEN "icmp4" ELSE r.protocol[1]
        field == IF r.protocol = Some("icmp") THEN "icmp4.type" ELSE r.protocol[1] \o ".dst"
    IN (IF r.direction = "ingress" THEN "outport" ELSE "inport")
       \o " == \"" \o p \o "\" && ip4 && " \o tag
       \o (IF lower THEN " && " \o field \o " >= " \o ToString(r.port_range_min[1]) ELSE "")
       \o (IF upper THEN " && " \o field \o " <= " \o ToString(r.port_range_max[1]) ELSE "")

\* The last call created a tcp, udp or icmp rule.
ProtocolRuleCreated ==
    /\ last.op = "create_security_group_rule"
    /\ last.result = "ok"
    /\ last.req.protocol \in {Some("tcp"), Some("udp"), Some("icmp")}

\* A bound that is specified and is not the sentinel -1.
Specified(bound) == bound # None /\ bound # Some(-1)

\* C31: when a tcp, udp or icmp rule is compiled for a port, the entry
\* states the lower bound exactly when port_range_min is specified and is
\* not -1, and the upper bound exactly when port_range_max is specified and
\* is not -1, a specified bound of 0 included.
C31_ClausePerSpecifiedBound ==
    ProtocolRuleCreated =>
        \A p \in Members(db, last.req.security_group_id) :
            BoundedMatch(p, last.req, Specified(last.req.port_range_min),
                         Specified(last.req.port_range_max)) \in MatchesFor(p)

\* The entries of port p that state a bound of 0 of rule r.
ZeroBoundMatches(p, r) ==
    {BoundedMatch(p, r, stated[1], stated[2]) :
        stated \in {bb \in BOOLEAN \X BOOLEAN :
                      /\ bb[1] => r.port_range_min # None
                      /\ bb[2] => r.port_range_max # None
                      /\ \/ bb[1] /\ r.port_range_min = Some(0)
                         \/ bb[2] /\ r.port_range_max = Some(0)}}

\* What the code does: the entry states a bound exactly when the bound is
\* specified, is not -1 and is not 0, and no entry states a bound of 0.
C31_ClausePerNonzeroBound ==
    ProtocolRuleCreated =>
        \A p \in Members(db, last.req.security_group_id) :
            /\ BoundedMatch(p, last.req,
                            Specified(last.req.port_range_min)
                                /\ last.req.port_range_min # Some(0),
                            Specified(last.req.port_range_max)
                                /\ last.req.port_range_max # Some(0)) \in MatchesFor(p)
            /\ ZeroBoundMatches(p, last.req) \cap MatchesFor(p) = {}

\* An icmp rule of type 0 was compiled for p1 and its entry names no type.
C31_ZeroBoundDropped ==
    /\ ProtocolRuleCreated
    /\ last.req.protocol = Some("icmp")
    /\ last.req.port_range_min = Some(0)
    /\ last.req.port_range_max = Some(0)
    /\ PortId(1) \in Members(db, last.req.security_group_id)
    /\ "outport == \"p1\" && ip4 && icmp4" \in MatchesFor(PortId(1))
    /\ "outport == \"p1\" && ip4 && icmp4 && icmp4.type >= 0 && icmp4.type <= 0"
          \notin MatchesFor(PortId(1))

====
